---- MODULE Spec2Model ----
(***************************************************************************)
(* A model of n8n-gitops: the manifest loader (manifest.py), the retrying  *)
(* HTTP client (n8n_client.py), code externalization (export_workflows.py) *)
(* and, as far as the repository documents them, the include resolver and  *)
(* the reconciler that deploy drives.                                      *)
(*                                                                         *)
(* Program strings are sequences of symbols.  A symbol is one character, or *)
(* an atom standing for a run of characters that every modelled operation   *)
(* treats alike (a run of letters such as "prod", or the include marker).   *)
(***************************************************************************)
EXTENDS Integers, Sequences, FiniteSets, TLC

VARIABLES
    file,       \* manifest loader: the manifest file as the snapshot serves it
    loaded,     \* manifest loader: the outcome of load_manifest, or Pending
    max_retries,    \* N8nClient.max_retries
    json_error_is_request_exception,
                    \* the installed requests raises its own JSONDecodeError
                    \* (a RequestException) from response.json(); older ones
                    \* raise a plain ValueError
    attempt,        \* _request: the loop variable
    rpc,            \* _request: "loop" (at the loop head), "after" (past the
                    \* loop), "done" (returned or raised), "idle"
    last_error,     \* _request: last_error
    requests,       \* _request: what each HTTP request issued so far met
    sleeps,         \* _request: the time.sleep calls made so far
    outcome,        \* _request: the value returned or the exception raised
    wf,             \* externalize: the workflow document handed in
    wf_name,        \* externalize: the workflow's name
    scripts,        \* the script files under the n8n root (path -> content)
    modified,       \* externalize: the document returned
    externalized_count,     \* externalize: the count returned
    rendered,       \* render: its result for the externalized document
    xpc,            \* "start", "externalized", "rendered", "idle"
    args,           \* deploy: the command-line flags
    docs,           \* deploy: the workflow documents of the snapshot, by name
    rendered_docs,  \* deploy: the render result of each manifest workflow
    remote_before,  \* the remote store as it was when the invocation began
    remote,         \* the remote store: its workflows and tags, by id
    actions,        \* deploy: the plan
    results,        \* deploy: the result of each plan action handled so far
    calls,          \* deploy: the mutations sent to the remote store so far
    second_plan,    \* the plan of a second, unchanged invocation
    dpc,            \* "start", "loaded", "rendered", "planned", "done",
                    \* "failed", "exit", "interrupted", "replanned", "idle"
    summaries,      \* run_export: workflows_to_export, as list_workflows gave it
    elogger,        \* the configured Logger (break_on_error)
    epos,           \* run_export: the index of the summary the loop is at
    fetches,        \* run_export: the summaries get_workflow was called for
    files_written,  \* run_export: the workflow files written, in order
    exported_specs, \* run_export: exported_specs
    errors_logged,  \* run_export: the summaries logger.error was called for
    epc,            \* "start", "loop", "done", "exit" (SystemExit), "raised"
                    \* (another exception), "idle"
    tags_mapping,   \* run_export: tags_mapping, the server's tags (id -> name)
    workflows_dir,  \* the JSON files of n8n/workflows: file name -> the id of
                    \* the workflow whose document the file holds
    script_dirs,    \* the directories of n8n/scripts
    manifest_before,    \* the manifest file as it was before the first run
    runs,           \* the number of export runs begun
    tag_pages,      \* the pages the server serves its tags in
    cursor,         \* list_tags: cursor
    all_tags,       \* list_tags: all_tags
    tag_requests,   \* list_tags: the params of each GET /api/v1/tags issued
    tpc,            \* "loop" (at the loop head), "returned", "raised", "idle"
    sname,          \* _sanitize_filename: the name handed in
    ssafe,          \* _sanitize_filename: what it returned for sname
    sagain,         \* _sanitize_filename: what it returned for ssafe
    spc,            \* "start", "once", "twice", "idle"
    exit_status     \* the exit status of the process; Running before it ends

mvars == <<file, loaded>>
rvars == <<max_retries, json_error_is_request_exception, attempt, rpc, last_error,
           requests, sleeps, outcome>>
xvars == <<wf, wf_name, scripts, modified, externalized_count, rendered, xpc>>
dvars == <<args, docs, rendered_docs, remote_before, remote, actions, results, calls,
           second_plan, dpc>>
evars == <<summaries, elogger, epos, fetches, files_written, exported_specs,
           errors_logged, epc, tags_mapping, workflows_dir, script_dirs, manifest_before,
           runs>>
tvars == <<tag_pages, cursor, all_tags, tag_requests, tpc>>
svars == <<sname, ssafe, sagain, spc>>
vars == <<mvars, rvars, xvars, dvars, evars, tvars, svars, exit_status>>

notLoader == <<rvars, xvars, dvars, evars, tvars, svars, exit_status>>
notRequest == <<mvars, xvars, dvars, evars, tvars, svars, exit_status>>
notExport == <<mvars, rvars, dvars, evars, tvars, svars, exit_status>>

(***************************************************************************)
(* Parsed YAML / JSON values, tagged by their Python type.                 *)
(***************************************************************************)
Null == [t |-> "null"]
Bool(b) == [t |-> "bool", b |-> b]
Num(n) == [t |-> "int", n |-> n]
Str(s) == [t |-> "str", s |-> s]
List(items) == [t |-> "list", items |-> items]
Dict(d) == [t |-> "dict", d |-> d]

EmptyDict == [k \in {} |-> Null]

\* dict.get(key, default)
DictGet(d, key, default) == IF key \in DOMAIN d THEN d[key] ELSE default

\* all(isinstance(x, str) for x in items)
AllStr(items) == \A i \in 1..Len(items) : items[i].t = "str"

\* the Python list of str that a validated YAML list denotes
StrList(items) == [i \in 1..Len(items) |-> items[i].s]

SeqToSet(s) == {s[i] : i \in 1..Len(s)}

(***************************************************************************)
(* Outcomes of a call: a return value, or a raised exception with the      *)
(* place that raised it.                                                   *)
(***************************************************************************)
Ok(v) == [ok |-> TRUE, val |-> v]
Raise(exc, site, idx, what, item) ==
    [ok |-> FALSE, exc |-> exc, site |-> site, idx |-> idx, what |-> what, item |-> item]
ManifestError(site, idx, what, item) == Raise("ManifestError", site, idx, what, item)

\* No outcome yet: the call has not been made.
Pending == Raise("none", "", -1, "", <<>>)

\* The manifest loader is not part of the run.
LoaderIdle == file = [kind |-> "missing"] /\ loaded = Pending

\* Externalization and rendering are not part of the run.
ExportIdle ==
    /\ wf = [t |-> "null"]
    /\ wf_name = <<>>
    /\ scripts = <<>>
    /\ modified = [t |-> "null"]
    /\ externalized_count = 0
    /\ rendered = Pending
    /\ xpc = "idle"

\* No deploy is part of the run.
DeployIdle ==
    /\ args = <<>>
    /\ docs = <<>>
    /\ rendered_docs = <<>>
    /\ remote_before = <<>>
    /\ remote = <<>>
    /\ actions = <<>>
    /\ results = <<>>
    /\ calls = <<>>
    /\ second_plan = Pending
    /\ dpc = "idle"

\* No export run is part of the run.
ExportRunIdle ==
    /\ summaries = <<>>
    /\ elogger = <<>>
    /\ epos = 0
    /\ fetches = <<>>
    /\ files_written = <<>>
    /\ exported_specs = <<>>
    /\ errors_logged = <<>>
    /\ epc = "idle"
    /\ tags_mapping = <<>>
    /\ workflows_dir = <<>>
    /\ script_dirs = {}
    /\ manifest_before = [kind |-> "missing"]
    /\ runs = 0

\* No tag listing is part of the run.
ListTagsIdle ==
    /\ tag_pages = <<>>
    /\ cursor = [t |-> "null"]
    /\ all_tags = <<>>
    /\ tag_requests = <<>>
    /\ tpc = "idle"

\* No name is being sanitized on its own.
SanitizeIdle == sname = <<>> /\ ssafe = <<>> /\ sagain = <<>> /\ spc = "idle"

\* The process has not ended.
Running == -1

(***************************************************************************)
(* manifest.py                                                             *)
(***************************************************************************)
WorkflowSpec(name, active, tags, requires_credentials, requires_env) ==
    [name |-> name, active |-> active, tags |-> tags,
     requires_credentials |-> requires_credentials, requires_env |-> requires_env]

Manifest(workflows, externalize_code, tags) ==
    [workflows |-> workflows, externalize_code |-> externalize_code, tags |-> tags]

\* The file is missing or unreadable (read_text raises), is malformed YAML
\* (safe_load raises a YAMLError), is well-formed YAML holding a scalar that
\* safe_load cannot construct, such as the date 2001-02-30 (safe_load raises
\* ValueError, which the handler for yaml.YAMLError lets through), or parses;
\* a parsed root that is no mapping is rejected.
_read_and_parse_yaml(f) ==
    IF f.kind = "missing" THEN ManifestError("read", -1, "", <<>>)
    ELSE IF f.kind = "badyaml" THEN ManifestError("yaml", -1, "", <<>>)
    ELSE IF f.kind = "unconstructible" THEN Raise("ValueError", "yaml", -1, "", <<>>)
    ELSE IF f.data.t # "dict" THEN ManifestError("root", -1, "", <<>>)
    ELSE Ok(f.data.d)

\* externalize_code taken as off when the manifest leaves it out.
ParseExternalizeCodeDefaultFalse(data) ==
    LET externalize_code == DictGet(data, "externalize_code", Bool(FALSE))
    IN  IF externalize_code.t # "bool"
        THEN ManifestError("externalize_code", -1, "externalize_code", <<>>)
        ELSE Ok(externalize_code.b)

_parse_externalize_code(data) ==
    LET externalize_code == DictGet(data, "externalize_code", Bool(TRUE))
    IN  IF externalize_code.t # "bool"
        THEN ManifestError("externalize_code", -1, "externalize_code", <<>>)
        ELSE Ok(externalize_code.b)

\* The mapping form accepted as well, declaring no names.
ParseTagsAcceptingMapping(data) ==
    LET tags_data == DictGet(data, "tags", List(<<>>))
    IN  IF tags_data.t = "list"
        THEN IF ~AllStr(tags_data.items)
             THEN ManifestError("tags_items", -1, "tags", <<>>)
             ELSE Ok(StrList(tags_data.items))
        ELSE IF tags_data.t = "dict"
        THEN Ok(<<>>)
        ELSE ManifestError("tags_type", -1, "tags", <<>>)

_parse_tags(data) ==
    LET tags_data == DictGet(data, "tags", List(<<>>))
    IN  IF tags_data.t = "list"
        THEN IF ~AllStr(tags_data.items)
             THEN ManifestError("tags_items", -1, "tags", <<>>)
             ELSE Ok(StrList(tags_data.items))
        ELSE ManifestError("tags_type", -1, "tags", <<>>)

_validate_workflow_field_list(field_name, field_value, workflow_idx, workflow_name) ==
    IF field_value.t # "list"
    THEN ManifestError("field_type", workflow_idx, field_name, workflow_name)
    ELSE IF ~AllStr(field_value.items)
    THEN ManifestError("field_items", workflow_idx, field_name, workflow_name)
    ELSE Ok(StrList(field_value.items))

\* not isinstance(name, str) or not name
NameInvalid(name) == name.t # "str" \/ name.s = <<>>

\* The duplicate check left out.
IsDuplicateNever(name, seen_names) == FALSE

\* name in seen_names
IsDuplicate(name, seen_names) == name \in seen_names

_parse_workflow_spec(workflow_data, idx, seen_names) ==
    IF "name" \notin DOMAIN workflow_data
    THEN ManifestError("name_missing", idx, "name", <<>>)
    ELSE
    LET name == workflow_data["name"]
    IN  IF NameInvalid(name)
        THEN ManifestError("name_invalid", idx, "name", <<>>)
        ELSE IF IsDuplicate(name.s, seen_names)
        THEN ManifestError("duplicate", idx, "name", name.s)
        ELSE
        LET active == DictGet(workflow_data, "active", Bool(FALSE))
            tags == _validate_workflow_field_list(
                        "tags", DictGet(workflow_data, "tags", List(<<>>)), idx, name.s)
            requires_credentials == _validate_workflow_field_list(
                        "requires_credentials",
                        DictGet(workflow_data, "requires_credentials", List(<<>>)), idx, name.s)
            requires_env == _validate_workflow_field_list(
                        "requires_env",
                        DictGet(workflow_data, "requires_env", List(<<>>)), idx, name.s)
        IN  IF active.t # "bool" THEN ManifestError("active", idx, "active", name.s)
            ELSE IF ~tags.ok THEN tags
            ELSE IF ~requires_credentials.ok THEN requires_credentials
            ELSE IF ~requires_env.ok THEN requires_env
            ELSE Ok(WorkflowSpec(name.s, active.b, tags.val,
                                 requires_credentials.val, requires_env.val))

\* The loop of _parse_workflows from entry idx (0-based) on, with the specs
\* gathered and the names seen so far.
RECURSIVE ParseEntries(_, _, _, _)
ParseEntries(workflows_data, idx, workflows, seen_names) ==
    IF idx >= Len(workflows_data) THEN Ok(workflows)
    ELSE
    LET workflow_data == workflows_data[idx + 1]
    IN  IF workflow_data.t # "dict"
        THEN ManifestError("entry_type", idx, "", <<>>)
        ELSE
        LET spec == _parse_workflow_spec(workflow_data.d, idx, seen_names)
        IN  IF ~spec.ok THEN spec
            ELSE ParseEntries(workflows_data, idx + 1, Append(workflows, spec.val),
                              seen_names \cup {spec.val.name})

_parse_workflows(data) ==
    IF "workflows" \notin DOMAIN data
    THEN ManifestError("workflows_missing", -1, "workflows", <<>>)
    ELSE IF data["workflows"].t # "list"
    THEN ManifestError("workflows_type", -1, "workflows", <<>>)
    ELSE ParseEntries(data["workflows"].items, 0, <<>>, {})

\* The cross-check of workflow tags left out.
ValidateNothing(workflows, manifest_tags) == Ok(TRUE)

\* Only the first tag of each workflow checked.
ValidateFirstTagOnly(workflows, manifest_tags) ==
    LET BadSpecs == {i \in 1..Len(workflows) :
                        /\ Len(workflows[i].tags) > 0
                        /\ workflows[i].tags[1] \notin SeqToSet(manifest_tags)}
    IN  IF BadSpecs = {} THEN Ok(TRUE)
        ELSE LET i == CHOOSE k \in BadSpecs : \A m \in BadSpecs : k <= m
             IN  ManifestError("undefined_tag", i - 1, "tags", workflows[i].tags[1])

\* The first (workflow, tag) in iteration order whose tag is not declared.
_validate_workflow_tags(workflows, manifest_tags) ==
    LET manifest_tag_names == SeqToSet(manifest_tags)
        Bad(i) == {j \in 1..Len(workflows[i].tags) :
                      workflows[i].tags[j] \notin manifest_tag_names}
        BadSpecs == {i \in 1..Len(workflows) : Bad(i) # {}}
    IN  IF BadSpecs = {} THEN Ok(TRUE)
        ELSE LET i == CHOOSE k \in BadSpecs : \A m \in BadSpecs : k <= m
                 j == CHOOSE k \in Bad(i) : \A m \in Bad(i) : k <= m
             IN  ManifestError("undefined_tag", i - 1, "tags", workflows[i].tags[j])

\* The workflows parsed before externalize_code and tags are looked at.
LoadManifestWorkflowsFirst(f) ==
    LET data == _read_and_parse_yaml(f)
    IN  IF ~data.ok THEN data
        ELSE
        LET externalize_code == _parse_externalize_code(data.val)
            tags_list == _parse_tags(data.val)
            workflows == _parse_workflows(data.val)
        IN  IF ~workflows.ok THEN workflows
            ELSE IF ~externalize_code.ok THEN externalize_code
            ELSE IF ~tags_list.ok THEN tags_list
            ELSE LET checked == _validate_workflow_tags(workflows.val, tags_list.val)
                 IN  IF ~checked.ok THEN checked
                     ELSE Ok(Manifest(workflows.val, externalize_code.val, tags_list.val))

load_manifest(f) ==
    LET data == _read_and_parse_yaml(f)
    IN  IF ~data.ok THEN data
        ELSE
        LET externalize_code == _parse_externalize_code(data.val)
            tags_list == _parse_tags(data.val)
            workflows == _parse_workflows(data.val)
        IN  IF ~externalize_code.ok THEN externalize_code
            ELSE IF ~tags_list.ok THEN tags_list
            ELSE IF ~workflows.ok THEN workflows
            ELSE LET checked == _validate_workflow_tags(workflows.val, tags_list.val)
                 IN  IF ~checked.ok THEN checked
                     ELSE Ok(Manifest(workflows.val, externalize_code.val, tags_list.val))

(***************************************************************************)
(* n8n_client.py: N8nClient._request                                       *)
(***************************************************************************)
DefaultMaxRetries == 3
MaxRetriesBound == 3

RetryableStatuses == {429, 500, 502, 503, 504}

\* What one session.request call can meet: a response (its status, and
\* whether its body parses as JSON) or a requests exception.
Response(code, json) == [kind |-> "response", status_code |-> code, json |-> json]
Timeout == [kind |-> "Timeout", status_code |-> 0, json |-> FALSE]
ConnectionError == [kind |-> "RequestException", status_code |-> 0, json |-> FALSE]

Responses ==
    {Response(200, TRUE), Response(200, FALSE)}
    \cup {Response(c, j) : c \in {400, 401, 404} \cup RetryableStatuses, j \in {FALSE}}
    \cup {Timeout, ConnectionError}

\* response.raise_for_status() raises HTTPError
RaisesForStatus(r) == r.status_code >= 400 /\ r.status_code < 600

NoError == [exc |-> "None", msg |-> ""]
APIError(msg) == [exc |-> "APIError", msg |-> msg]

\* 2 ** attempt
RECURSIVE Pow2(_)
Pow2(n) == IF n = 0 THEN 1 ELSE 2 * Pow2(n - 1)

\* Every exception the iteration can meet is turned into an APIError, so this
\* test fails on none of them.
BreakNow(err, i) == err.exc # "APIError" \/ i = max_retries - 1

RequestIdle ==
    /\ max_retries = 0
    /\ json_error_is_request_exception = TRUE
    /\ attempt = 0
    /\ rpc = "idle"
    /\ last_error = NoError
    /\ requests = <<>>
    /\ sleeps = <<>>
    /\ outcome = Pending

RequestInit ==
    /\ max_retries \in 0..MaxRetriesBound
    /\ json_error_is_request_exception \in BOOLEAN
    /\ attempt = 0
    /\ rpc = "loop"
    /\ last_error = NoError
    /\ requests = <<>>
    /\ sleeps = <<>>
    /\ outcome = Pending
    /\ LoaderIdle
    /\ ListTagsIdle
    /\ SanitizeIdle
    /\ ExportIdle
    /\ DeployIdle
    /\ ExportRunIdle
    /\ exit_status = Running

\* The except clauses and the test after them: last_error is set, and the
\* loop is left on the last attempt only.
Caught(err) ==
    /\ last_error' = err
    /\ IF BreakNow(err, attempt)
       THEN rpc' = "after" /\ UNCHANGED attempt
       ELSE rpc' = "loop" /\ attempt' = attempt + 1
    /\ UNCHANGED <<sleeps, outcome>>

\* One iteration of the loop: one HTTP request and what the code does with
\* what it meets.
Attempt ==
    /\ rpc = "loop"
    /\ attempt < max_retries
    /\ \E r \in Responses :
        /\ requests' = Append(requests, r)
        /\ IF r.kind = "Timeout" THEN Caught(APIError("Request timeout"))
           ELSE IF r.kind = "RequestException" THEN Caught(APIError("Request error"))
           ELSE IF r.status_code \in RetryableStatuses /\ attempt < max_retries - 1
           THEN /\ sleeps' = Append(sleeps, Pow2(attempt))
                /\ attempt' = attempt + 1
                /\ UNCHANGED <<rpc, last_error, outcome>>
           ELSE IF RaisesForStatus(r) THEN Caught(APIError("API request failed"))
           ELSE IF r.json
           THEN /\ outcome' = Ok(r)
                /\ rpc' = "done"
                /\ UNCHANGED <<attempt, last_error, sleeps>>
           ELSE IF json_error_is_request_exception
           THEN Caught(APIError("Request error"))
           ELSE /\ outcome' = Raise("ValueError", "json", attempt, "", <<>>)
                /\ rpc' = "done"
                /\ UNCHANGED <<attempt, last_error, sleeps>>
    /\ UNCHANGED <<max_retries, json_error_is_request_exception, notRequest>>

\* Past the loop (left by break, or never entered): the error is raised.
RaiseAfterLoop ==
    /\ \/ rpc = "after"
       \/ rpc = "loop" /\ attempt >= max_retries
    /\ outcome' = IF last_error # NoError
                  THEN Raise("APIError", last_error.msg, attempt, "", <<>>)
                  ELSE Raise("APIError", "Request failed after retries", attempt, "", <<>>)
    /\ rpc' = "done"
    /\ UNCHANGED <<max_retries, json_error_is_request_exception, attempt, last_error,
                   requests, sleeps, notRequest>>

RequestNext == Attempt \/ RaiseAfterLoop

RequestSpec == RequestInit /\ [][RequestNext]_vars

(***************************************************************************)
(* Claims about _request.                                                  *)
(***************************************************************************)
OtherErrorStatus(r) ==
    r.kind = "response" /\ RaisesForStatus(r) /\ r.status_code \notin RetryableStatuses

NonErrorStatus(r) == r.kind = "response" /\ ~RaisesForStatus(r)

\* C8: a request is re-issued only after a transient failure; a response with
\* any other error status (400, 401, 404) is the last request of the call,
\* which ends with APIError.
C8_RetryOnlyTransient ==
    /\ \A i \in 1..(Len(requests) - 1) :
          RaisesForStatus(requests[i]) => requests[i].status_code \in RetryableStatuses
    /\ \A i \in 1..Len(requests) :
          OtherErrorStatus(requests[i]) =>
              /\ i = Len(requests)
              /\ rpc = "done" => ~outcome.ok /\ outcome.exc = "APIError"

\* C9: one call issues at most max_retries requests, returns a value only
\* from an attempt that got a non-error status, issues no request after such
\* an attempt, and raises APIError (nothing else) when it does not return.
C9_BoundedAttempts ==
    /\ Len(requests) <= max_retries
    /\ outcome.ok => outcome.val = requests[Len(requests)] /\ NonErrorStatus(outcome.val)
    /\ \A i \in 1..(Len(requests) - 1) : ~NonErrorStatus(requests[i])
    /\ rpc = "done" /\ ~outcome.ok => outcome.exc = "APIError"

(***************************************************************************)
(* Strings as symbol sequences: the operations the code applies to them.   *)
(***************************************************************************)
MARKER == "@@n8n-gitops:include"

Whitespace == {" ", "\n", "\t"}

\* Symbols that are runs of \w characters (letters, digits, underscore).
WordSymbols == {"a", "b", "x", "y", "_", "JS", "PY", "Node", "Test", "scripts",
                "workflow", "unnamed", "A", "B", "Invoice", "Sync"}

RECURSIVE LStrip(_, _)
LStrip(s, chars) ==
    IF s # <<>> /\ Head(s) \in chars THEN LStrip(Tail(s), chars) ELSE s

RECURSIVE RStrip(_, _)
RStrip(s, chars) ==
    IF s # <<>> /\ s[Len(s)] \in chars THEN RStrip(SubSeq(s, 1, Len(s) - 1), chars) ELSE s

\* str.strip() and str.strip(chars)
Strip(s, chars) == RStrip(LStrip(s, chars), chars)

\* No value taken for a directive.
StartsWithMarkerNever(s) == FALSE

\* str.startswith(MARKER)
StartsWithMarker(s) == s # <<>> /\ Head(s) = MARKER

\* re.sub(r"_+", "_", s)
RECURSIVE CollapseUnderscores(_)
CollapseUnderscores(s) ==
    IF Len(s) < 2 THEN s
    ELSE IF s[1] = "_" /\ s[2] = "_" THEN CollapseUnderscores(Tail(s))
    ELSE <<s[1]>> \o CollapseUnderscores(Tail(s))

\* The words of s: its maximal runs of symbols outside seps.
RECURSIVE SplitOn(_, _, _)
SplitOn(s, seps, word) ==
    IF s = <<>> THEN (IF word = <<>> THEN <<>> ELSE <<word>>)
    ELSE IF Head(s) \in seps
    THEN (IF word = <<>> THEN <<>> ELSE <<word>>) \o SplitOn(Tail(s), seps, <<>>)
    ELSE SplitOn(Tail(s), seps, Append(word, Head(s)))

(***************************************************************************)
(* export_workflows.py: code externalization                               *)
(***************************************************************************)
\* The code-bearing parameter names (render.CODE_FIELD_NAMES), in the order
\* the repository's documentation lists them.
CODE_FIELD_NAMES == <<"pythonCode", "jsCode", "code", "functionCode">>

\* The code sanitizes over the name; a mutant that keeps spaces.
SanitizeKeepingSpaces(name) ==
    LET safe == [i \in 1..Len(name) |->
                    IF name[i] \in WordSymbols \cup {"-", ".", " "} THEN name[i] ELSE "_"]
        stripped == Strip(CollapseUnderscores(safe), {"_"})
    IN  IF stripped = <<>> THEN <<"workflow">> ELSE stripped

\* Leading and trailing underscores removed before the characters are replaced.
SanitizeStripFirst(name) ==
    LET stripped == Strip(name, {"_"})
        safe == [i \in 1..Len(stripped) |->
                    IF stripped[i] \in WordSymbols \cup {"-", "."} THEN stripped[i] ELSE "_"]
        collapsed == CollapseUnderscores(safe)
    IN  IF collapsed = <<>> THEN <<"workflow">> ELSE collapsed

_sanitize_filename(name) ==
    LET safe == [i \in 1..Len(name) |->
                    IF name[i] \in WordSymbols \cup {"-", "."} THEN name[i] ELSE "_"]
        stripped == Strip(CollapseUnderscores(safe), {"_"})
    IN  IF stripped = <<>> THEN <<"workflow">> ELSE stripped

_get_file_extension(field_name) ==
    IF field_name = "pythonCode" THEN ".py"
    ELSE IF field_name \in {"jsCode", "code", "functionCode"} THEN ".js"
    ELSE ".txt"

(***************************************************************************)
(* The file tree under the n8n root: resolved path -> content.             *)
(***************************************************************************)
RECURSIVE Resolve(_, _)
Resolve(segments, done) ==
    IF segments = <<>> THEN done
    ELSE IF Head(segments) = <<".">> THEN Resolve(Tail(segments), done)
    ELSE IF Head(segments) = <<".", ".">>
    THEN Resolve(Tail(segments), IF done = <<>> THEN done ELSE SubSeq(done, 1, Len(done) - 1))
    ELSE Resolve(Tail(segments), Append(done, Head(segments)))

\* The file a relative path names, as the operating system resolves it.
PathOf(rel_path) == Resolve(SplitOn(rel_path, {"/"}, <<>>), <<>>)

NoFiles == [p \in {} |-> <<>>]

\* A file that exists is left as it is.
WriteTextKeepExisting(files, rel_path, content) ==
    [p \in DOMAIN files \cup {PathOf(rel_path)} |->
        IF p \in DOMAIN files THEN files[p] ELSE content]

\* Path.write_text: the file is created or overwritten.
WriteText(files, rel_path, content) ==
    [p \in DOMAIN files \cup {PathOf(rel_path)} |->
        IF p = PathOf(rel_path) THEN content ELSE files[p]]

\* One code field of one node: left alone, or written out and replaced.
ExternalizeField(acc, i, field_name, safe_workflow_name) ==
    LET node == acc.nodes[i]
        node_name == DictGet(node.d, "name", Str(<<"unnamed">>))
        parameters == node.d["parameters"]
        code_value == parameters.d[field_name]
    IN  IF field_name \notin DOMAIN parameters.d THEN acc
        ELSE IF code_value.t # "str" \/ Strip(code_value.s, Whitespace) = <<>> THEN acc
        ELSE IF StartsWithMarker(Strip(code_value.s, Whitespace)) THEN acc
        ELSE
        LET safe_node_name == _sanitize_filename(node_name.s)
            extension == _get_file_extension(field_name)
            base_filename == Append(safe_node_name, extension)
            relative_path == <<"scripts", "/">> \o safe_workflow_name \o <<"/">> \o base_filename
            include_directive == <<MARKER, " ">> \o relative_path
        IN  [nodes |-> [acc.nodes EXCEPT ![i] =
                           Dict([node.d EXCEPT !["parameters"] =
                               Dict([parameters.d EXCEPT ![field_name] = Str(include_directive)])])],
             files |-> WriteText(acc.files, relative_path, code_value.s),
             count |-> acc.count + 1]

\* for field_name in CODE_FIELD_NAMES, from the k-th name on
RECURSIVE ExternalizeFields(_, _, _, _)
ExternalizeFields(acc, i, k, safe_workflow_name) ==
    IF k > Len(CODE_FIELD_NAMES) THEN acc
    ELSE ExternalizeFields(ExternalizeField(acc, i, CODE_FIELD_NAMES[k], safe_workflow_name),
                           i, k + 1, safe_workflow_name)

\* for node in nodes, from the i-th node on
RECURSIVE ExternalizeNodes(_, _, _)
ExternalizeNodes(acc, i, safe_workflow_name) ==
    IF i > Len(acc.nodes) THEN acc
    ELSE IF acc.nodes[i].t # "dict" THEN ExternalizeNodes(acc, i + 1, safe_workflow_name)
    ELSE IF DictGet(acc.nodes[i].d, "parameters", Dict(EmptyDict)).t # "dict"
    THEN ExternalizeNodes(acc, i + 1, safe_workflow_name)
    ELSE IF "parameters" \notin DOMAIN acc.nodes[i].d
    THEN ExternalizeNodes(acc, i + 1, safe_workflow_name)
    ELSE ExternalizeNodes(ExternalizeFields(acc, i, 1, safe_workflow_name), i + 1,
                          safe_workflow_name)

\* Returns the modified workflow, the count, and the script files as they are
\* after the call (files: the tree before it).
_externalize_workflow_code(workflow, workflow_name, files) ==
    LET nodes == DictGet(workflow.d, "nodes", List(<<>>))
    IN  IF nodes.t # "list"
        THEN [modified |-> workflow, count |-> 0, files |-> files]
        ELSE
        LET acc == ExternalizeNodes([nodes |-> nodes.items, files |-> files, count |-> 0], 1,
                                    _sanitize_filename(workflow_name))
        IN  [modified |-> IF "nodes" \in DOMAIN workflow.d
                          THEN Dict([workflow.d EXCEPT !["nodes"] = List(acc.nodes)])
                          ELSE workflow,
             count |-> acc.count,
             files |-> acc.files]

(***************************************************************************)
(* The include resolver (render), as the repository documents it.          *)
(***************************************************************************)
\* The script contents of the model and their sha256 digests (one atom each,
\* standing for 64 lowercase hex characters).
KnownContents == << <<"x">>, <<"y">>, <<" ", "x", "\n">> >>
DigestAtoms == <<"d1", "d2", "d3">>

Sha256(content) ==
    IF \E i \in 1..Len(KnownContents) : KnownContents[i] = content
    THEN DigestAtoms[CHOOSE i \in 1..Len(KnownContents) : KnownContents[i] = content]
    ELSE "d0"

IsDigest(sym) == sym \in SeqToSet(DigestAtoms) \cup {"d0"}

\* The directive grammar, matched against the whole trimmed value:
\*   @@n8n-gitops:include <path> [sha256=<64 hex>]
ParseDirective(value) ==
    LET words == SplitOn(Strip(value, Whitespace), Whitespace, <<>>)
        plain == Len(words) = 2 /\ words[1] = <<MARKER>>
        summed == /\ Len(words) = 3 /\ words[1] = <<MARKER>>
                  /\ Len(words[3]) = 2 /\ words[3][1] = "sha256=" /\ IsDigest(words[3][2])
    IN  IF plain THEN [match |-> TRUE, path |-> words[2], checksum |-> ""]
        ELSE IF summed THEN [match |-> TRUE, path |-> words[2], checksum |-> words[3][2]]
        ELSE [match |-> FALSE, path |-> <<>>, checksum |-> ""]

\* The enforce flag lost on the way to the resolver.
RenderOptionsNeverEnforce(enforce_checksum, require_checksum) ==
    [enforce_checksum |-> FALSE, require_checksum |-> require_checksum]

RenderOptions(enforce_checksum, require_checksum) ==
    [enforce_checksum |-> enforce_checksum, require_checksum |-> require_checksum]

IncludeReport(field, node, path, status, expected, actual) ==
    [field |-> field, node |-> node, path |-> path, status |-> status,
     expected |-> expected, actual |-> actual]

\* Snapshot.exists / Snapshot.read_text, on the tree under the n8n root
SnapshotExists(files, rel_path) == PathOf(rel_path) \in DOMAIN files
SnapshotReadText(files, rel_path) == files[PathOf(rel_path)]

\* One code field of one node: the status of its directive (if it is one)
\* and the value the field gets.
RenderField(acc, i, field_name, files, options) ==
    LET node == acc.nodes[i]
        parameters == node.d["parameters"]
        value == parameters.d[field_name]
        directive == ParseDirective(value.s)
        present == SnapshotExists(files, directive.path)
        content == SnapshotReadText(files, directive.path)
        actual == IF present THEN Sha256(content) ELSE ""
        status ==
            IF ~present THEN "missing_file"
            ELSE IF directive.checksum # "" /\ directive.checksum # actual
            THEN "checksum_mismatch"
            ELSE IF directive.checksum = "" /\ options.require_checksum
            THEN "missing_checksum_required"
            ELSE "included"
        fatal ==
            \/ status = "missing_file"
               /\ (options.enforce_checksum \/ options.require_checksum)
            \/ status = "checksum_mismatch" /\ options.enforce_checksum
            \/ status = "missing_checksum_required"
        report == IncludeReport(field_name, DictGet(node.d, "name", Null), directive.path,
                                status, directive.checksum, actual)
    IN  IF ~acc.ok THEN acc
        ELSE IF field_name \notin DOMAIN parameters.d THEN acc
        ELSE IF value.t # "str" THEN acc
        ELSE IF ~directive.match THEN acc
        ELSE IF fatal
        THEN [acc EXCEPT !.ok = FALSE, !.reports = Append(acc.reports, report)]
        ELSE IF status = "missing_file"
        THEN [acc EXCEPT !.reports = Append(acc.reports, report)]
        ELSE [acc EXCEPT
                 !.reports = Append(acc.reports, report),
                 !.nodes[i] = Dict([node.d EXCEPT !["parameters"] =
                                 Dict([parameters.d EXCEPT ![field_name] = Str(content)])])]

RECURSIVE RenderFields(_, _, _, _, _)
RenderFields(acc, i, k, files, options) ==
    IF k > Len(CODE_FIELD_NAMES) THEN acc
    ELSE RenderFields(RenderField(acc, i, CODE_FIELD_NAMES[k], files, options),
                      i, k + 1, files, options)

RECURSIVE RenderNodes(_, _, _, _)
RenderNodes(acc, i, files, options) ==
    IF i > Len(acc.nodes) THEN acc
    ELSE IF acc.nodes[i].t # "dict" \/ "parameters" \notin DOMAIN acc.nodes[i].d
    THEN RenderNodes(acc, i + 1, files, options)
    ELSE IF acc.nodes[i].d["parameters"].t # "dict"
    THEN RenderNodes(acc, i + 1, files, options)
    ELSE RenderNodes(RenderFields(acc, i, 1, files, options), i + 1, files, options)

\* render(document, snapshot, n8nRoot, options): the rendered document and
\* the reports; ok is FALSE when a directive's status was fatal (RenderError).
render_workflow_json(workflow, files, options) ==
    LET nodes == DictGet(workflow.d, "nodes", List(<<>>))
    IN  IF nodes.t # "list"
        THEN [ok |-> TRUE, rendered |-> workflow, reports |-> <<>>]
        ELSE
        LET acc == RenderNodes([ok |-> TRUE, nodes |-> nodes.items, reports |-> <<>>],
                               1, files, options)
        IN  [ok |-> acc.ok,
             rendered |-> IF "nodes" \in DOMAIN workflow.d
                          THEN Dict([workflow.d EXCEPT !["nodes"] = List(acc.nodes)])
                          ELSE workflow,
             reports |-> acc.reports]

(***************************************************************************)
(* Manifest documents the loader is run on.                                *)
(***************************************************************************)
MaxWorkflows == 2

A == <<"A">>
B == <<"B">>
prod == <<"prod">>
dev == <<"dev">>
zzz == <<"zzz">>

Entry(name, rest) == Dict([k \in {"name"} |-> name] @@ rest)

\* Workflow entries: valid ones, and ones violating each rule (some several).
Entries ==
    { Str(<<"x">>),
      Dict(EmptyDict),
      Dict([k \in {"tags"} |-> List(<<Str(zzz)>>)]),
      Entry(Str(<<>>), EmptyDict),
      Entry(Num(7), EmptyDict),
      Entry(Str(A), EmptyDict),
      Entry(Str(A), [k \in {"active", "tags", "requires_credentials", "requires_env"} |->
                        CASE k = "active" -> Bool(TRUE)
                          [] k = "tags" -> List(<<Str(prod)>>)
                          [] k = "requires_credentials" -> List(<<Str(<<"c">>)>>)
                          [] OTHER -> List(<<Str(<<"E">>)>>)]),
      Entry(Str(B), [k \in {"tags"} |-> List(<<Str(zzz)>>)]),
      Entry(Str(B), [k \in {"active", "tags"} |->
                        IF k = "active" THEN Str(<<"yes">>) ELSE List(<<Str(zzz)>>)]),
      Entry(Str(A), [k \in {"tags"} |-> Str(prod)]),
      Entry(Str(B), [k \in {"tags"} |-> List(<<Num(7)>>)]),
      Entry(Str(B), [k \in {"requires_credentials", "requires_env"} |->
                        IF k = "requires_env" THEN List(<<Num(1)>>) ELSE Null]),
      Entry(Str(A), [k \in {"requires_env"} |-> Str(<<"E">>)]),
      Entry(Str(B), [k \in {"active", "tags"} |->
                        IF k = "active" THEN Bool(FALSE) ELSE List(<<Str(prod), Str(dev)>>)]) }

RECURSIVE SeqsUpTo(_, _)
SeqsUpTo(S, n) ==
    IF n = 0 THEN {<<>>}
    ELSE LET shorter == SeqsUpTo(S, n - 1)
         IN  shorter \cup {Append(s, x) : s \in {q \in shorter : Len(q) = n - 1}, x \in S}

Absent == [t |-> "absent"]

ExternalizeCodeValues == {Absent, Bool(TRUE), Bool(FALSE), Str(<<"yes">>)}

TagsValues ==
    { Absent,
      List(<<Str(prod)>>),
      List(<<Str(prod), Str(dev)>>),
      List(<<Str(dev), Str(prod), Str(dev)>>),
      List(<<Str(prod), Num(7)>>),
      Dict([k \in {"t1"} |-> Str(prod)]),
      Str(prod) }

WorkflowsValues ==
    {Absent, Null} \cup {List(s) : s \in SeqsUpTo(Entries, MaxWorkflows)}

\* A mapping with the given keys, a key left out when its value is Absent.
Root(e, t, w) ==
    LET v == [k \in {"externalize_code", "tags", "workflows"} |->
                 CASE k = "externalize_code" -> e [] k = "tags" -> t [] OTHER -> w]
    IN  Dict([k \in {x \in DOMAIN v : v[x] # Absent} |-> v[k]])

ManifestFiles ==
    { [kind |-> "missing"], [kind |-> "badyaml"], [kind |-> "unconstructible"],
      [kind |-> "yaml", data |-> Null],
      [kind |-> "yaml", data |-> List(<<>>)] }
    \cup { [kind |-> "yaml", data |-> Root(e, t, w)] :
              e \in ExternalizeCodeValues, t \in TagsValues, w \in WorkflowsValues }

LoaderInit ==
    /\ file \in ManifestFiles
    /\ loaded = Pending
    /\ RequestIdle
    /\ ListTagsIdle
    /\ SanitizeIdle
    /\ ExportIdle
    /\ DeployIdle
    /\ ExportRunIdle
    /\ exit_status = Running

\* load_manifest(snapshot) is called once on the file.
LoadManifest ==
    /\ loaded = Pending
    /\ loaded' = load_manifest(file)
    /\ UNCHANGED <<file, notLoader>>

LoaderNext == LoadManifest

LoaderSpec == LoaderInit /\ [][LoaderNext]_vars

(***************************************************************************)
(* What a manifest document violates, read off the document itself.        *)
(***************************************************************************)
IsMapping(f) == f.kind = "yaml" /\ f.data.t = "dict"

\* The workflow entries of the document (none unless 'workflows' is a list).
RawEntries(f) ==
    IF IsMapping(f) /\ "workflows" \in DOMAIN f.data.d /\ f.data.d["workflows"].t = "list"
    THEN f.data.d["workflows"].items
    ELSE <<>>

\* The tag names the document declares (none unless 'tags' is a list).
RawDeclaredTags(f) ==
    IF IsMapping(f) /\ "tags" \in DOMAIN f.data.d /\ f.data.d["tags"].t = "list"
    THEN {x.s : x \in {y \in SeqToSet(f.data.d["tags"].items) : y.t = "str"}}
    ELSE {}

\* Entry e lists a tag name that the document does not declare.
ListsUndeclaredTag(f, e) ==
    /\ e.t = "dict" /\ "tags" \in DOMAIN e.d /\ e.d["tags"].t = "list"
    /\ \E x \in SeqToSet(e.d["tags"].items) : x.t = "str" /\ x.s \notin RawDeclaredTags(f)

HasUndeclaredTag(f) == \E i \in 1..Len(RawEntries(f)) : ListsUndeclaredTag(f, RawEntries(f)[i])

HasName(e) == e.t = "dict" /\ "name" \in DOMAIN e.d

BadName(e) == ~HasName(e) \/ e.d["name"].t # "str" \/ e.d["name"].s = <<>>

\* Entry i repeats the name of an earlier entry.
RepeatsName(f, i) ==
    /\ HasName(RawEntries(f)[i])
    /\ \E j \in 1..(i - 1) : /\ HasName(RawEntries(f)[j])
                             /\ RawEntries(f)[j].d["name"] = RawEntries(f)[i].d["name"]

BadListField(e, k) ==
    /\ k \in DOMAIN e.d
    /\ (e.d[k].t # "list" \/ \E x \in SeqToSet(e.d[k].items) : x.t # "str")

\* Entry i breaks a rule of its own (or repeats an earlier name).
BadEntry(f, i) ==
    LET e == RawEntries(f)[i]
    IN  \/ BadName(e)
        \/ RepeatsName(f, i)
        \/ ("active" \in DOMAIN e.d /\ e.d["active"].t # "bool")
        \/ \E k \in {"tags", "requires_credentials", "requires_env"} : BadListField(e, k)

\* The stages of load_manifest in the order the code runs them; the stage
\* of entry idx is "entry" with that index.
StageOrder == <<"read", "parse", "root", "externalize_code", "tags", "workflows",
                "entry", "cross_check">>

Stage(name, idx) == [stage |-> name, idx |-> idx]

Rank(name) == CHOOSE i \in 1..Len(StageOrder) : StageOrder[i] = name

\* Stage x is not after stage y.
NotAfter(x, y) ==
    \/ Rank(x.stage) < Rank(y.stage)
    \/ Rank(x.stage) = Rank(y.stage) /\ x.idx <= y.idx

\* The stages of load_manifest that the document violates.
ViolatedStages(f) ==
    IF f.kind = "missing" THEN {Stage("read", -1)}
    ELSE IF f.kind \in {"badyaml", "unconstructible"} THEN {Stage("parse", -1)}
    ELSE IF f.data.t # "dict" THEN {Stage("root", -1)}
    ELSE
    LET d == f.data.d
    IN  {Stage(k, -1) : k \in {x \in DOMAIN d : x = "externalize_code" /\ d[x].t # "bool"}}
        \cup {Stage(k, -1) : k \in {x \in DOMAIN d : x = "tags" /\
                    (d[x].t # "list" \/ \E y \in SeqToSet(d[x].items) : y.t # "str")}}
        \cup (IF "workflows" \notin DOMAIN d \/ d["workflows"].t # "list"
              THEN {Stage("workflows", -1)} ELSE {})
        \cup {Stage("entry", i - 1) : i \in {k \in 1..Len(RawEntries(f)) : BadEntry(f, k)}}
        \cup (IF HasUndeclaredTag(f) THEN {Stage("cross_check", -1)} ELSE {})

\* The stage that raised a ManifestError.
StageOf(r) ==
    CASE r.site = "read" -> Stage("read", -1)
      [] r.site = "yaml" -> Stage("parse", -1)
      [] r.site = "root" -> Stage("root", -1)
      [] r.site = "externalize_code" -> Stage("externalize_code", -1)
      [] r.site \in {"tags_items", "tags_type"} -> Stage("tags", -1)
      [] r.site \in {"workflows_missing", "workflows_type"} -> Stage("workflows", -1)
      [] r.site = "undefined_tag" -> Stage("cross_check", -1)
      [] OTHER -> Stage("entry", r.idx)

Rejected == loaded # Pending /\ ~loaded.ok

\* C5: load_manifest raises ManifestError whenever an entry lists a tag that
\* the manifest does not declare, so in every Manifest it returns each
\* workflow's tags are all among Manifest.tags.
C5_TagsDeclared ==
    loaded # Pending =>
        /\ HasUndeclaredTag(file) => ~loaded.ok /\ loaded.exc = "ManifestError"
        /\ loaded.ok =>
              \A i \in 1..Len(loaded.val.workflows) :
                  SeqToSet(loaded.val.workflows[i].tags) \subseteq SeqToSet(loaded.val.tags)

\* An undeclared tag was the reason for the rejection.
C5_Witness == Rejected /\ loaded.site = "undefined_tag" /\ loaded.idx = 1

\* C6: every Manifest returned has non-empty, pairwise distinct workflow
\* names; a document with a repeated name or a missing, empty or non-string
\* name is rejected with ManifestError.
C6_NamesUnique ==
    loaded # Pending =>
        /\ loaded.ok =>
              /\ \A i \in 1..Len(loaded.val.workflows) : loaded.val.workflows[i].name # <<>>
              /\ \A i, j \in 1..Len(loaded.val.workflows) :
                    loaded.val.workflows[i].name = loaded.val.workflows[j].name => i = j
        /\ (\E i \in 1..Len(RawEntries(file)) :
                RawEntries(file)[i].t = "dict"
                /\ (BadName(RawEntries(file)[i]) \/ RepeatsName(file, i)))
           => ~loaded.ok /\ loaded.exc = "ManifestError"

\* Two entries with the same valid name were met.
C6_Witness == Rejected /\ loaded.site = "duplicate"

\* C7: the one error raised is that of the earliest violated stage: read,
\* parse, root shape, externalize_code, tags, the workflow entries in
\* document order, and last the cross-check of workflow tags; past the parse
\* stage it is a ManifestError.
C7_FailFastOrder ==
    loaded # Pending =>
        /\ loaded.ok <=> ViolatedStages(file) = {}
        /\ ~loaded.ok =>
              /\ StageOf(loaded).stage # "parse" => loaded.exc = "ManifestError"
              /\ StageOf(loaded) \in ViolatedStages(file)
              /\ \A s \in ViolatedStages(file) : NotAfter(StageOf(loaded), s)

\* A document with an undeclared tag in its first entry and two earlier-stage
\* violations: the error raised is not the tag's.
C7_Witness ==
    /\ Rejected
    /\ Len(RawEntries(file)) >= 1
    /\ ListsUndeclaredTag(file, RawEntries(file)[1])
    /\ Cardinality(ViolatedStages(file)) >= 3
    /\ StageOf(loaded).stage # "cross_check"

(***************************************************************************)
(* Externalize, then render: the workflows the two are run on.             *)
(***************************************************************************)
MaxNodes == 2

Code1 == <<"x">>
Code2 == <<"y">>

WorkflowNames == {<<"Test">>, <<"!", " ">>}

NodeNames == {Absent, Str(<<"JS", " ", "Node">>), Str(<<"JS", "_", "Node">>)}

Fields(js, other, v) == [k \in {"jsCode", other} |-> IF k = "jsCode" THEN js ELSE v]

\* The 'parameters' of a node: code fields to externalize, fields to leave
\* alone, and a missing or malformed mapping.
ParameterValues ==
    { Dict([k \in {"jsCode"} |-> Str(Code1)]),
      Dict([k \in {"jsCode"} |-> Str(Code2)]),
      Dict([k \in {"pythonCode"} |-> Str(Code1)]),
      Dict(Fields(Str(Code1), "code", Str(Code2))),
      Dict([k \in {"jsCode"} |-> Str(<<" ", "x", "\n">>)]),
      Dict(Fields(Str(<<" ">>), "code", Str(<<>>))),
      Dict(Fields(Dict(EmptyDict), "pythonCode", Str(Code2))),
      Dict([k \in {"jsCode"} |-> Str(<<" ", MARKER>>)]),
      Dict([k \in {"jsCode"} |-> Str(<<MARKER, " ", "scripts", "/", "Test", "/", "PY", ".py">>)]),
      Absent,
      Null }

NodeOf(name, parameters) ==
    LET v == [k \in {"name", "parameters"} |-> IF k = "name" THEN name ELSE parameters]
    IN  Dict([k \in {x \in DOMAIN v : v[x] # Absent} |-> v[k]])

\* The nodes: one that is no mapping, a named node with each kind of
\* parameters, nodes of every name with one code field, and a node without a
\* name holding two.
Nodes ==
    {Str(<<"x">>), NodeOf(Absent, Dict(Fields(Str(Code1), "code", Str(Code2))))}
    \cup {NodeOf(Str(<<"JS", " ", "Node">>), q) : q \in ParameterValues}
    \cup {NodeOf(n, Dict([k \in {"jsCode"} |-> Str(c)])) : n \in NodeNames, c \in {Code1, Code2}}

Workflows ==
    {Dict(EmptyDict), Dict([k \in {"nodes"} |-> Null])}
    \cup {Dict([k \in {"nodes"} |-> List(ns)]) : ns \in SeqsUpTo(Nodes, MaxNodes)}

ExportInit ==
    /\ wf \in Workflows
    /\ wf_name \in WorkflowNames
    /\ scripts = NoFiles
    /\ modified = Null
    /\ externalized_count = 0
    /\ rendered = Pending
    /\ xpc = "start"
    /\ LoaderIdle
    /\ RequestIdle
    /\ ListTagsIdle
    /\ SanitizeIdle
    /\ DeployIdle
    /\ ExportRunIdle
    /\ exit_status = Running

\* modified, count = _externalize_workflow_code(wf, name, scripts_dir)
Externalize ==
    /\ xpc = "start"
    /\ LET r == _externalize_workflow_code(wf, wf_name, scripts)
       IN  /\ modified' = r.modified
           /\ externalized_count' = r.count
           /\ scripts' = r.files
    /\ xpc' = "externalized"
    /\ UNCHANGED <<wf, wf_name, rendered, notExport>>

\* rendered, reports = render_workflow_json(modified, snapshot, "n8n", options)
\* with checksums not required (the directives written carry none).
Render ==
    /\ xpc = "externalized"
    /\ \E enforce_checksum \in BOOLEAN :
          rendered' = render_workflow_json(modified, scripts,
                                           RenderOptions(enforce_checksum, FALSE))
    /\ xpc' = "rendered"
    /\ UNCHANGED <<wf, wf_name, scripts, modified, externalized_count, notExport>>

ExportNext == Externalize \/ Render

ExportSpec == ExportInit /\ [][ExportNext]_vars

(***************************************************************************)
(* Claims about externalization and rendering.                             *)
(***************************************************************************)
NodesOf(w) ==
    IF w.t = "dict" /\ "nodes" \in DOMAIN w.d /\ w.d["nodes"].t = "list"
    THEN w.d["nodes"].items ELSE <<>>

\* The code fields of node i of w that hold a value.
CodeFieldsOf(w, i) ==
    LET n == NodesOf(w)[i]
    IN  IF n.t = "dict" /\ "parameters" \in DOMAIN n.d /\ n.d["parameters"].t = "dict"
        THEN DOMAIN n.d["parameters"].d \cap SeqToSet(CODE_FIELD_NAMES)
        ELSE {}

CodeValue(w, i, f) == NodesOf(w)[i].d["parameters"].d[f]

\* Every code field of w holds a string that is no include directive.
HoldsInlineCodeOnly(w) ==
    \A i \in 1..Len(NodesOf(w)) : \A f \in CodeFieldsOf(w, i) :
        CodeValue(w, i, f).t = "str" /\ ~ParseDirective(CodeValue(w, i, f).s).match

\* C4: for a workflow whose code fields hold strings that are no directives,
\* externalizing and then rendering gives back, in every code field of every
\* node, exactly the original string, and every report has status included.
C4_RoundTrip ==
    xpc = "rendered" /\ HoldsInlineCodeOnly(wf) =>
        /\ rendered.ok
        /\ \A i \in 1..Len(NodesOf(wf)) : \A f \in CodeFieldsOf(wf, i) :
              CodeValue(rendered.rendered, i, f) = CodeValue(wf, i, f)
        /\ \A k \in 1..Len(rendered.reports) : rendered.reports[k].status = "included"

(***************************************************************************)
(* cli.py: main                                                            *)
(***************************************************************************)
\* A user interrupt exits like any other error.
ExitStatusInterruptAsError(raised) == IF raised \in {"returned", "SystemExit(0)"} THEN 0 ELSE 1

\* The exit status of the process when the command returns or raises:
\* KeyboardInterrupt is caught and exits 130, any other Exception exits 1,
\* and a SystemExit passes through main with the status it carries.
ExitStatus(raised) ==
    IF raised \in {"returned", "SystemExit(0)"} THEN 0
    ELSE IF raised = "KeyboardInterrupt" THEN 130
    ELSE 1

(***************************************************************************)
(* logger.py                                                               *)
(***************************************************************************)
\* An error that never ends the run, whatever break_on_error is.
ErrorNeverExits(break_on_error) == "returned"

\* An error that always ends the run, as critical() does.
ErrorAlwaysExits(break_on_error) == "SystemExit"

\* Logger.error: the message is printed, and SystemExit(1) is raised when
\* break_on_error is set.
error(break_on_error) == IF break_on_error THEN "SystemExit" ELSE "returned"

(***************************************************************************)
(* The reconciler (plan and apply), as the repository documents it.        *)
(***************************************************************************)
\* The id an action carries for a workflow that its plan is still to create.
NoId == 0

RemoteWorkflow(name, active, tags, doc) ==
    [name |-> name, active |-> active, tags |-> tags, doc |-> doc]

RemoteStore(workflows, tags) == [workflows |-> workflows, tags |-> tags]

NoEntries == [i \in {} |-> Null]

ReconciliationAction(op, name, id, tags, newName, doc) ==
    [op |-> op, name |-> name, id |-> id, tags |-> tags, newName |-> newName, doc |-> doc]

CreateTag(name) == ReconciliationAction("CreateTag", name, NoId, <<>>, <<>>, Null)
Create(name, doc) == ReconciliationAction("Create", name, NoId, <<>>, <<>>, doc)
Update(id, name, doc) == ReconciliationAction("Update", name, id, <<>>, <<>>, doc)
Rename(id, old, new) == ReconciliationAction("Rename", old, id, <<>>, new, Null)
Activate(id, name) == ReconciliationAction("Activate", name, id, <<>>, <<>>, Null)
Deactivate(id, name) == ReconciliationAction("Deactivate", name, id, <<>>, <<>>, Null)
AssignTags(id, name, tags) == ReconciliationAction("AssignTags", name, id, tags, <<>>, Null)
Delete(id, name) == ReconciliationAction("Delete", name, id, <<>>, <<>>, Null)

Flags(dry_run, backup, prune) == [dry_run |-> dry_run, backup |-> backup, prune |-> prune]

\* The timestamp-suffixed name a backup gives the existing remote entry.
BackupName(name) == Append(name, " [BKP ts]")

\* Matching is by exact name.
Matches(name, remoteWorkflows) ==
    {id \in DOMAIN remoteWorkflows : remoteWorkflows[id].name = name}

\* The ids of a set, ascending.
RECURSIVE Ascending(_)
Ascending(ids) ==
    IF ids = {} THEN <<>>
    ELSE LET least == CHOOSE x \in ids : \A y \in ids : x <= y
         IN  <<least>> \o Ascending(ids \ {least})

\* A CreateTag for each of the names, from the k-th on, not known so far.
RECURSIVE PlanTags(_, _, _)
PlanTags(tags, k, known) ==
    IF k > Len(tags) THEN <<>>
    ELSE IF tags[k] \in known THEN PlanTags(tags, k + 1, known)
    ELSE <<CreateTag(tags[k])>> \o PlanTags(tags, k + 1, known \cup {tags[k]})

\* The missing tags created after the workflow is written, not before.
PlanWorkflowTagsLate(spec, doc, remoteWorkflows, known, flags) ==
    LET matches == Matches(spec.name, remoteWorkflows)
        id == IF matches = {} THEN NoId ELSE CHOOSE x \in matches : TRUE
        written ==
            IF matches = {}
            THEN <<Create(spec.name, doc)>>
                 \o (IF spec.active THEN <<Activate(NoId, spec.name)>> ELSE <<>>)
            ELSE (IF flags.backup THEN <<Rename(id, spec.name, BackupName(spec.name))>>
                  ELSE <<>>)
                 \o <<Update(id, spec.name, doc)>>
                 \o (IF spec.active = remoteWorkflows[id].active THEN <<>>
                     ELSE IF spec.active THEN <<Activate(id, spec.name)>>
                     ELSE <<Deactivate(id, spec.name)>>)
    IN  written \o PlanTags(spec.tags, 1, known) \o <<AssignTags(id, spec.name, spec.tags)>>

\* The actions of one desired workflow: its missing tags, Create (and
\* Activate) or (Rename and) Update, the activation change, AssignTags.
PlanWorkflow(spec, doc, remoteWorkflows, known, flags) ==
    LET matches == Matches(spec.name, remoteWorkflows)
        id == IF matches = {} THEN NoId ELSE CHOOSE x \in matches : TRUE
        written ==
            IF matches = {}
            THEN <<Create(spec.name, doc)>>
                 \o (IF spec.active THEN <<Activate(NoId, spec.name)>> ELSE <<>>)
            ELSE (IF flags.backup THEN <<Rename(id, spec.name, BackupName(spec.name))>>
                  ELSE <<>>)
                 \o <<Update(id, spec.name, doc)>>
                 \o (IF spec.active = remoteWorkflows[id].active THEN <<>>
                     ELSE IF spec.active THEN <<Activate(id, spec.name)>>
                     ELSE <<Deactivate(id, spec.name)>>)
    IN  PlanTags(spec.tags, 1, known) \o written \o <<AssignTags(id, spec.name, spec.tags)>>

\* The desired workflows in manifest order, from the i-th on.
RECURSIVE PlanSpecs(_, _, _, _, _, _)
PlanSpecs(specs, renderedWorkflows, i, remoteWorkflows, known, flags) ==
    IF i > Len(specs) THEN <<>>
    ELSE PlanWorkflow(specs[i], renderedWorkflows[i], remoteWorkflows, known, flags)
         \o PlanSpecs(specs, renderedWorkflows, i + 1, remoteWorkflows,
                      known \cup SeqToSet(specs[i].tags), flags)

\* Every remote workflow is taken for pruning, matched or not.
PruneEveryRemote(specs, remoteWorkflows) == DOMAIN remoteWorkflows

\* The remote workflows with no corresponding desired spec.
PruneCandidates(specs, remoteWorkflows) ==
    {id \in DOMAIN remoteWorkflows :
        \A i \in 1..Len(specs) : specs[i].name # remoteWorkflows[id].name}

Deletes(specs, remoteWorkflows) ==
    LET ids == Ascending(PruneCandidates(specs, remoteWorkflows))
    IN  [k \in 1..Len(ids) |-> Delete(ids[k], remoteWorkflows[ids[k]].name)]

\* More than one remote workflow carries a desired name.
AmbiguousMatch(specs, remoteWorkflows) ==
    \E i \in 1..Len(specs) : Cardinality(Matches(specs[i].name, remoteWorkflows)) > 1

plan(manifest, renderedWorkflows, remoteWorkflows, remoteTags, flags) ==
    IF AmbiguousMatch(manifest.workflows, remoteWorkflows)
    THEN Raise("ReconciliationPrecondition", "match", -1, "name", <<>>)
    ELSE Ok(PlanSpecs(manifest.workflows, renderedWorkflows, 1, remoteWorkflows,
                      {remoteTags[t] : t \in DOMAIN remoteTags}, flags)
            \o (IF flags.prune THEN Deletes(manifest.workflows, remoteWorkflows) ELSE <<>>))

\* The id the remote store gives the next entry it creates.
NextId(entries) ==
    IF DOMAIN entries = {} THEN 1
    ELSE 1 + CHOOSE x \in DOMAIN entries : \A y \in DOMAIN entries : y <= x

\* The workflow an action is about: the one it names by id, or the one its
\* plan created under the action's name.
TargetId(a, remoteWorkflows) ==
    IF a.id # NoId THEN a.id ELSE CHOOSE id \in Matches(a.name, remoteWorkflows) : TRUE

TagId(remoteTags, name) == CHOOSE t \in DOMAIN remoteTags : remoteTags[t] = name

\* The remote store after it has carried out action a.
Perform(a, store) ==
    LET w == store.workflows
        target == TargetId(a, w)
    IN  CASE a.op = "CreateTag" ->
                [store EXCEPT !.tags = store.tags @@ (NextId(store.tags) :> a.name)]
          [] a.op = "Create" ->
                [store EXCEPT !.workflows =
                    w @@ (NextId(w) :> RemoteWorkflow(a.name, FALSE, {}, a.doc))]
          [] a.op = "Update" ->
                [store EXCEPT !.workflows[a.id] = [@ EXCEPT !.name = a.name, !.doc = a.doc]]
          [] a.op = "Rename" -> [store EXCEPT !.workflows[a.id].name = a.newName]
          [] a.op = "Activate" -> [store EXCEPT !.workflows[target].active = TRUE]
          [] a.op = "Deactivate" -> [store EXCEPT !.workflows[target].active = FALSE]
          [] a.op = "AssignTags" ->
                [store EXCEPT !.workflows[target].tags =
                    {TagId(store.tags, a.tags[k]) : k \in 1..Len(a.tags)}]
          [] OTHER ->
                [store EXCEPT !.workflows = [id \in DOMAIN w \ {a.id} |-> w[id]]]

\* Action a needs what action b was to bring about: a workflow that b
\* creates, or a tag that b creates.
DependsOn(a, b) ==
    \/ /\ b.op = "Create"
       /\ a.op \in {"Activate", "Deactivate", "AssignTags"}
       /\ a.id = NoId /\ a.name = b.name
    \/ /\ b.op = "CreateTag"
       /\ a.op = "AssignTags"
       /\ b.name \in SeqToSet(a.tags)

\* The i-th action depends on an earlier one that failed or was skipped.
Blocked(plan_actions, done, i) ==
    \E j \in 1..(i - 1) : done[j] # "ok" /\ DependsOn(plan_actions[i], plan_actions[j])

(***************************************************************************)
(* Deploy: the manifests, documents and remote stores it is run on.        *)
(***************************************************************************)
MaxFailures == 2

DesiredA ==
    Entry(Str(A), [k \in {"active", "tags"} |->
                      IF k = "active" THEN Bool(TRUE) ELSE List(<<Str(prod)>>)])
DesiredB ==
    Entry(Str(B), [k \in {"active", "tags"} |->
                      IF k = "active" THEN Bool(FALSE) ELSE List(<<Str(prod), Str(dev)>>)])

InvoiceSync == <<"Invoice", " ", "Sync">>

\* One workflow "Invoice Sync", active, tagged "prod".
InvoiceManifest ==
    [kind |-> "yaml",
     data |-> Root(Absent, List(<<Str(prod)>>),
                   List(<<Entry(Str(InvoiceSync), [k \in {"active", "tags"} |->
                       IF k = "active" THEN Bool(TRUE) ELSE List(<<Str(prod)>>)])>>))]

\* Valid manifests of one and two workflows, with and without tags; one
\* whose workflow lists an undeclared tag; one that is not YAML.
DeployManifests ==
    { InvoiceManifest,
      [kind |-> "yaml", data |-> Root(Absent, List(<<Str(prod)>>), List(<<DesiredA>>))],
      [kind |-> "yaml",
       data |-> Root(Absent, List(<<Str(prod), Str(dev)>>), List(<<DesiredA, DesiredB>>))],
      [kind |-> "yaml", data |-> Root(Absent, Absent, List(<<Entry(Str(A), EmptyDict)>>))],
      [kind |-> "yaml", data |-> Root(Absent, List(<<Str(prod)>>), List(<<DesiredB>>))],
      [kind |-> "badyaml"] }

DeployScripts == WriteText(NoFiles, <<"scripts", "/", "a", ".py">>, Code1)

InlineDoc ==
    Dict([k \in {"nodes"} |->
            List(<<NodeOf(Str(<<"JS">>), Dict([f \in {"jsCode"} |-> Str(Code2)]))>>)])

\* A directive whose checksum is not the digest of the file it names.
MismatchDoc ==
    Dict([k \in {"nodes"} |->
            List(<<NodeOf(Str(<<"PY">>), Dict([f \in {"pythonCode"} |->
                Str(<<MARKER, " ", "scripts", "/", "a", ".py", " ", "sha256=", "d2">>)]))>>)])

DocSets ==
    { [n \in {A, B, InvoiceSync} |-> InlineDoc],
      [n \in {A, B, InvoiceSync} |-> IF n = A THEN MismatchDoc ELSE InlineDoc] }

Listed(name, active, tags) == RemoteWorkflow(name, active, tags, Null)

\* Remote stores: empty, holding the desired workflow, holding it next to
\* another one, and holding two workflows of the same name.
RemoteStores ==
    { RemoteStore(NoEntries, NoEntries),
      RemoteStore(NoEntries, 1 :> prod),
      RemoteStore(1 :> Listed(A, FALSE, {}), NoEntries),
      RemoteStore(1 :> Listed(A, TRUE, {1}), 1 :> prod),
      RemoteStore(1 :> Listed(A, TRUE, {}) @@ 2 :> Listed(B, TRUE, {1}), 1 :> prod),
      RemoteStore(1 :> Listed(A, FALSE, {}) @@ 2 :> Listed(A, TRUE, {}), NoEntries) }

DeployInit ==
    /\ file \in DeployManifests
    /\ loaded = Pending
    /\ RequestIdle
    /\ ListTagsIdle
    /\ SanitizeIdle
    /\ wf = [t |-> "null"]
    /\ wf_name = <<>>
    /\ scripts = DeployScripts
    /\ modified = [t |-> "null"]
    /\ externalized_count = 0
    /\ rendered = Pending
    /\ xpc = "idle"
    /\ args \in [dry_run : BOOLEAN, backup : BOOLEAN, prune : BOOLEAN,
                 break_on_error : BOOLEAN, enforce_checksum : BOOLEAN]
    /\ docs \in DocSets
    /\ rendered_docs = <<>>
    /\ remote \in RemoteStores
    /\ remote_before = remote
    /\ actions = <<>>
    /\ results = <<>>
    /\ calls = <<>>
    /\ second_plan = Pending
    /\ dpc = "start"
    /\ ExportRunIdle
    /\ exit_status = Running

\* The rendered documents of the manifest's workflows, in manifest order.
RenderedWorkflows == [i \in 1..Len(rendered_docs) |-> rendered_docs[i].rendered]

\* The manifest is loaded from the snapshot; a ManifestError ends the run.
DeployLoad ==
    /\ dpc = "start"
    /\ loaded' = load_manifest(file)
    /\ dpc' = IF loaded'.ok THEN "loaded" ELSE "failed"
    /\ exit_status' = IF dpc' = "failed" THEN ExitStatus("Exception") ELSE exit_status
    /\ UNCHANGED <<file, rvars, xvars, evars, tvars, svars, args, docs, rendered_docs, remote_before, remote,
                   actions, results, calls, second_plan>>

\* Every workflow of the manifest is rendered, in manifest order; a
\* RenderError ends the run.
DeployRender ==
    /\ dpc = "loaded"
    /\ LET specs == loaded.val.workflows
           rs == [i \in 1..Len(specs) |->
                     render_workflow_json(docs[specs[i].name], scripts,
                                          RenderOptions(args.enforce_checksum, FALSE))]
       IN  /\ rendered_docs' = rs
           /\ dpc' = IF \A i \in 1..Len(rs) : rs[i].ok THEN "rendered" ELSE "failed"
    /\ exit_status' = IF dpc' = "failed" THEN ExitStatus("Exception") ELSE exit_status
    /\ UNCHANGED <<mvars, rvars, xvars, evars, tvars, svars, args, docs, remote_before, remote, actions, results,
                   calls, second_plan>>

\* The remote workflows and tags are listed and the plan is computed; an
\* ambiguous match ends the run.
DeployPlan ==
    /\ dpc = "rendered"
    /\ LET p == plan(loaded.val, RenderedWorkflows, remote.workflows, remote.tags,
                     Flags(args.dry_run, args.backup, args.prune))
       IN  IF p.ok THEN actions' = p.val /\ dpc' = "planned"
           ELSE actions' = actions /\ dpc' = "failed"
    /\ exit_status' = IF dpc' = "failed" THEN ExitStatus("Exception") ELSE exit_status
    /\ UNCHANGED <<mvars, rvars, xvars, evars, tvars, svars, args, docs, rendered_docs, remote_before, remote,
                   results, calls, second_plan>>

\* Dry-run: the plan is reported and apply is not invoked.
DryRun ==
    /\ dpc = "planned"
    /\ args.dry_run
    /\ dpc' = "done"
    /\ exit_status' = ExitStatus("returned")
    /\ UNCHANGED <<mvars, rvars, xvars, evars, tvars, svars, args, docs, rendered_docs, remote_before, remote,
                   actions, results, calls, second_plan>>

Applying == dpc = "planned" /\ ~args.dry_run /\ Len(results) < Len(actions)

\* The next action is sent to the remote store, which carries it out.
ApplyOk ==
    /\ Applying
    /\ ~Blocked(actions, results, Len(results) + 1)
    /\ calls' = Append(calls, actions[Len(results) + 1])
    /\ remote' = Perform(actions[Len(results) + 1], remote)
    /\ results' = Append(results, "ok")
    /\ exit_status' = exit_status
    /\ UNCHANGED <<mvars, rvars, xvars, evars, tvars, svars, args, docs, rendered_docs, remote_before, actions,
                   second_plan, dpc>>

\* The next action is sent and fails with a RemoteStoreError, which is
\* recorded and reported as an error.
ApplyFail ==
    /\ Applying
    /\ ~Blocked(actions, results, Len(results) + 1)
    /\ Cardinality({k \in 1..Len(results) : results[k] = "failed"}) < MaxFailures
    /\ calls' = Append(calls, actions[Len(results) + 1])
    /\ results' = Append(results, "failed")
    /\ dpc' = IF error(args.break_on_error) = "SystemExit" THEN "exit" ELSE dpc
    /\ exit_status' = IF dpc' = "exit" THEN ExitStatus("SystemExit(1)") ELSE exit_status
    /\ UNCHANGED <<mvars, rvars, xvars, evars, tvars, svars, args, docs, rendered_docs, remote_before, remote,
                   actions, second_plan>>

\* The next action depends on one that failed: it is skipped and reported.
ApplySkip ==
    /\ Applying
    /\ Blocked(actions, results, Len(results) + 1)
    /\ results' = Append(results, "skipped")
    /\ exit_status' = exit_status
    /\ UNCHANGED <<mvars, rvars, xvars, evars, tvars, svars, args, docs, rendered_docs, remote_before, remote,
                   actions, calls, second_plan, dpc>>

\* Every action of the plan has been handled.
ApplyEnd ==
    /\ dpc = "planned"
    /\ ~args.dry_run
    /\ Len(results) = Len(actions)
    /\ dpc' = "done"
    /\ exit_status' = ExitStatus("returned")
    /\ UNCHANGED <<mvars, rvars, xvars, evars, tvars, svars, args, docs, rendered_docs, remote_before, remote,
                   actions, results, calls, second_plan>>

\* A second invocation with the same manifest and documents plans against
\* the remote state that the first one left.
Replan ==
    /\ dpc = "done"
    /\ ~args.dry_run
    /\ second_plan' = plan(loaded.val, RenderedWorkflows, remote.workflows, remote.tags,
                           Flags(args.dry_run, args.backup, args.prune))
    /\ dpc' = "replanned"
    /\ exit_status' = exit_status
    /\ UNCHANGED <<mvars, rvars, xvars, evars, tvars, svars, args, docs, rendered_docs, remote_before, remote,
                   actions, results, calls>>

\* A user interrupt between two steps of the command: KeyboardInterrupt
\* reaches main, which exits.
Interrupt ==
    /\ dpc \in {"start", "loaded", "rendered", "planned"}
    /\ dpc' = "interrupted"
    /\ exit_status' = ExitStatus("KeyboardInterrupt")
    /\ UNCHANGED <<mvars, rvars, xvars, evars, tvars, svars, args, docs, rendered_docs, remote_before, remote,
                   actions, results, calls, second_plan>>

\* A user interrupt while a call to the remote store is under way: the
\* store has carried the action out, or the request never got that far.
InterruptInCall ==
    /\ Applying
    /\ ~Blocked(actions, results, Len(results) + 1)
    /\ calls' = Append(calls, actions[Len(results) + 1])
    /\ \E carried_out \in BOOLEAN :
          /\ remote' = IF carried_out THEN Perform(actions[Len(results) + 1], remote)
                       ELSE remote
          /\ results' = Append(results, IF carried_out THEN "interrupted_after"
                                        ELSE "interrupted_before")
    /\ dpc' = "interrupted"
    /\ exit_status' = ExitStatus("KeyboardInterrupt")
    /\ UNCHANGED <<mvars, rvars, xvars, evars, tvars, svars, args, docs, rendered_docs, remote_before,
                   actions, second_plan>>

DeployNext ==
    \/ DeployLoad
    \/ DeployRender
    \/ DeployPlan
    \/ DryRun
    \/ ApplyOk
    \/ ApplyFail
    \/ ApplySkip
    \/ ApplyEnd
    \/ Replan
    \/ Interrupt
    \/ InterruptInCall

DeploySpec == DeployInit /\ [][DeployNext]_vars

(***************************************************************************)
(* Claims about the reconciler.                                            *)
(***************************************************************************)
AllApplied == \A k \in 1..Len(results) : results[k] = "ok"

\* C1: after a plan has been applied fully and successfully, planning again
\* with the same manifest and rendered documents against the resulting remote
\* state gives the empty action sequence.
C1_IdempotentPlan ==
    dpc = "replanned" /\ AllApplied => second_plan.ok /\ second_plan.val = <<>>

\* In plan p every Delete comes after every Create, Update and Rename, and
\* deletes no workflow that p also creates or updates.
DeletesLastAndApart(p) ==
    \A i, j \in 1..Len(p) :
        p[i].op = "Delete" =>
            /\ p[j].op \in {"Create", "Update", "Rename"} => j < i
            /\ p[j].op = "Update" => p[j].id # p[i].id
            /\ p[j].op = "Create" => p[j].name # p[i].name

\* C2: with prune enabled, in every plan each Delete comes after every
\* Create, Update and Rename of that plan, and no plan holds a Delete for a
\* workflow identity that the same plan also creates or updates.
C2_PruneOrdering ==
    /\ DeletesLastAndApart(actions)
    /\ second_plan.ok => DeletesLastAndApart(second_plan.val)

\* A plan with prune and backup: a Rename and an Update of the matched
\* workflow, and a Delete of the unmatched one.
C2_Witness ==
    /\ dpc = "planned" /\ args.prune /\ args.backup
    /\ \E i, j, k \in 1..Len(actions) :
          /\ actions[i].op = "Rename" /\ actions[j].op = "Update"
          /\ actions[k].op = "Delete" /\ actions[k].id # actions[j].id

\* Some desired name is carried by more than one workflow of store.
Ambiguous(f, store) ==
    \E i \in 1..Len(RawEntries(f)) :
        /\ HasName(RawEntries(f)[i])
        /\ \E x, y \in DOMAIN store.workflows :
              /\ x # y
              /\ store.workflows[x].name = RawEntries(f)[i].d["name"].s
              /\ store.workflows[y].name = RawEntries(f)[i].d["name"].s

\* A desired workflow's document holds the mismatching directive while
\* checksums are enforced.
RenderMustFail ==
    /\ args.enforce_checksum
    /\ \E i \in 1..Len(RawEntries(file)) :
          /\ HasName(RawEntries(file)[i])
          /\ docs[RawEntries(file)[i].d["name"].s] = MismatchDoc

\* C3: no mutation is sent to the remote store unless the manifest loaded,
\* every workflow rendered and no desired name matched more than one remote
\* workflow; an invocation that fails on one of these leaves the remote
\* state as it was.
C3_NoMutationBeforeChecks ==
    /\ calls # <<>> =>
          /\ ViolatedStages(file) = {}
          /\ loaded.ok
          /\ ~RenderMustFail
          /\ Len(rendered_docs) = Len(loaded.val.workflows)
          /\ \A i \in 1..Len(rendered_docs) : rendered_docs[i].ok
          /\ ~Ambiguous(file, remote_before)
    /\ calls = <<>> => remote = remote_before
    /\ dpc = "failed" => calls = <<>>

\* The manifest loaded and every document rendered, and the invocation
\* (not a dry run, against a non-empty remote store) failed on the match.
C3_Witness ==
    /\ dpc = "failed" /\ ~args.dry_run
    /\ loaded.ok
    /\ Len(rendered_docs) >= 1 /\ \A i \in 1..Len(rendered_docs) : rendered_docs[i].ok
    /\ Ambiguous(file, remote_before)
    /\ remote = remote_before

\* The i-th action of the plan is about a workflow or a tag that the
\* earlier j-th action is to create.
Needs(i, j) ==
    /\ j < i
    /\ \/ /\ actions[j].op = "Create"
          /\ actions[i].op \in {"Activate", "Deactivate", "AssignTags"}
          /\ actions[i].name = actions[j].name
       \/ /\ actions[j].op = "CreateTag"
          /\ actions[i].op = "AssignTags"
          /\ \E k \in 1..Len(actions[i].tags) : actions[i].tags[k] = actions[j].name

\* The i-th action needs an earlier one that was not carried out.
LacksNeeded(i) == \E j \in 1..(i - 1) : Needs(i, j) /\ results[j] # "ok"

Sent(i) == \E c \in 1..Len(calls) : calls[c] = actions[i]

\* C10: an action that depends on a failed one is skipped and never sent to
\* the remote store; every other action is sent, and without break-on-error
\* the whole plan is gone through whatever fails.
C10_SkipDependents ==
    /\ \A i \in 1..Len(results) :
          IF LacksNeeded(i)
          THEN results[i] = "skipped" /\ ~Sent(i)
          ELSE /\ results[i] \in {"ok", "failed", "interrupted_before", "interrupted_after"}
               /\ Sent(i)
    /\ \A i \in (Len(results) + 1)..Len(actions) : ~Sent(i)
    /\ dpc \in {"done", "exit", "replanned"} /\ ~args.dry_run /\ ~args.break_on_error
          => Len(results) = Len(actions)

\* A Create failed, the Activate of its workflow was skipped, and a later
\* Create of another workflow was carried out.
C10_Witness ==
    \E i, j, k \in 1..Len(results) :
        /\ i < j /\ j < k
        /\ actions[i].op = "Create" /\ results[i] = "failed"
        /\ actions[j].op = "Activate" /\ actions[j].name = actions[i].name
        /\ results[j] = "skipped"
        /\ actions[k].op = "Create" /\ results[k] = "ok"

(***************************************************************************)
(* export_workflows.py: run_export, from the loading of the manifest on,   *)
(* and the files it keeps under the n8n root.                              *)
(***************************************************************************)
MaxSummaries == 3
MaxRuns == 2

Logger(silent, break_on_error) == [silent |-> silent, break_on_error |-> break_on_error]

\* A workflow summary of list_workflows; an id of 0 or a name of <<>> stands
\* for a missing (or empty) "id" or "name".
Summary(id, name) == [id |-> id, name |-> name]

Summaries ==
    {Summary(1, A), Summary(2, B), Summary(0, A), Summary(3, <<>>), Summary(4, <<"A", "!">>)}

\* if not wf_id or not wf_name
SummaryInvalid(wf_summary) == wf_summary.id = 0 \/ wf_summary.name = <<>>

\* filename = f"{safe_name}.json"
WorkflowFilename(name) == Append(_sanitize_filename(name), ".json")

\* The tags the server may hold: none, or the tag t1 named prod.
TagMappings == {[t \in {} |-> <<>>], [t \in {"t1"} |-> prod]}

\* What get_workflow returns for the summary, as far as the manifest entry
\* goes: workflow 1 is active and carries every tag of the server.
ExportedSpec(wf_summary, mapping) ==
    [name |-> wf_summary.name,
     active |-> wf_summary.id = 1,
     tags |-> IF wf_summary.id = 1 /\ "t1" \in DOMAIN mapping THEN <<"t1">> ELSE <<>>]

\* The workflows.yaml that create-project writes (create_project.py:44-55).
ScaffoldManifest ==
    [kind |-> "yaml",
     data |-> Dict([k \in {"externalize_code", "tags", "workflows"} |->
                      CASE k = "externalize_code" -> Bool(TRUE)
                        [] k = "tags" -> Dict(EmptyDict)
                        [] OTHER -> List(<<>>)])]

\* A manifest kept by hand: one tag, one workflow, the setting given.
HandManifest(externalize_code) ==
    [kind |-> "yaml",
     data |-> Root(Bool(externalize_code), List(<<Str(prod)>>),
                   List(<<Entry(Str(A), [k \in {"tags"} |-> List(<<Str(prod)>>)])>>))]

\* The manifest files an export run may find.
ExportManifests ==
    {[kind |-> "missing"], ScaffoldManifest, HandManifest(TRUE), HandManifest(FALSE)}

\* The code points of the characters of the workflow names, ascending.
SymbolOrder == <<" ", "!", "A", "B">>

RECURSIVE StrLess(_, _)
\* s < t for two str
StrLess(s, t) ==
    IF t = <<>> THEN FALSE
    ELSE IF s = <<>> THEN TRUE
    ELSE IF Head(s) = Head(t) THEN StrLess(Tail(s), Tail(t))
    ELSE (CHOOSE k \in 1..Len(SymbolOrder) : SymbolOrder[k] = Head(s))
            < (CHOOSE k \in 1..Len(SymbolOrder) : SymbolOrder[k] = Head(t))

RECURSIVE InsertByName(_, _)
InsertByName(sorted_specs, w) ==
    IF sorted_specs = <<>> THEN <<w>>
    ELSE IF StrLess(w.name, Head(sorted_specs).name) THEN <<w>> \o sorted_specs
    ELSE <<Head(sorted_specs)>> \o InsertByName(Tail(sorted_specs), w)

\* sorted(existing_specs, key=lambda w: w["name"])
RECURSIVE SortedByName(_)
SortedByName(specs) ==
    IF specs = <<>> THEN <<>>
    ELSE InsertByName(SortedByName(SubSeq(specs, 1, Len(specs) - 1)), specs[Len(specs)])

\* One entry of the manifest written, as YAML holds it.
SpecYaml(w) ==
    Dict([k \in {"name", "active", "tags"} |->
             CASE k = "name" -> Str(w.name)
               [] k = "active" -> Bool(w.active)
               [] OTHER -> List([i \in 1..Len(w.tags) |-> Str(<<w.tags[i]>>)])])

\* yaml.dump({"externalize_code": ..., "tags": sorted_tags, "workflows":
\* existing_specs}) as written to workflows.yaml: tags is the mapping of tag
\* id to tag name.
ManifestYaml(externalize_code, sorted_tags, existing_specs) ==
    [kind |-> "yaml",
     data |-> Dict([k \in {"externalize_code", "tags", "workflows"} |->
                      CASE k = "externalize_code" -> Bool(externalize_code)
                        [] k = "tags" -> Dict([id \in DOMAIN sorted_tags |-> Str(sorted_tags[id])])
                        [] OTHER -> List([i \in 1..Len(existing_specs) |->
                                             SpecYaml(existing_specs[i])])])]

\* externalize_code as run_export sets it: the manifest's, or True when the
\* manifest cannot be loaded.
ExternalizeCode(manifest) == IF manifest.ok THEN manifest.val.externalize_code ELSE TRUE

\* The workflow files and script directories that go with a manifest file
\* found before the first run: those of the manifest kept by hand.
FilesOf(f) ==
    IF f = HandManifest(TRUE) \/ f = HandManifest(FALSE)
    THEN [p \in {WorkflowFilename(A)} |-> 1]
    ELSE [p \in {} |-> 0]

DirsOf(f) == IF f = HandManifest(TRUE) THEN {_sanitize_filename(A)} ELSE {}

ExportRunInit ==
    /\ summaries \in SeqsUpTo(Summaries, MaxSummaries)
    /\ elogger \in {Logger(FALSE, b) : b \in BOOLEAN}
    /\ epos = 1
    /\ fetches = <<>>
    /\ files_written = <<>>
    /\ exported_specs = <<>>
    /\ errors_logged = <<>>
    /\ epc = "start"
    /\ tags_mapping \in TagMappings
    /\ file \in ExportManifests
    /\ loaded = Pending
    /\ workflows_dir = FilesOf(file)
    /\ script_dirs = DirsOf(file)
    /\ manifest_before = file
    /\ runs = 1
    /\ exit_status = Running
    /\ RequestIdle
    /\ ListTagsIdle
    /\ SanitizeIdle
    /\ ExportIdle
    /\ DeployIdle

\* What no action of a run changes.
exportFrame == <<summaries, elogger, tags_mapping, manifest_before, runs,
                 rvars, xvars, dvars, tvars, svars>>

\* logger.error(...) called in the iteration for summary k about a failed
\* fetch or write: the run ends with SystemExit(1), or goes on at next.
LogError(k, what, next) ==
    /\ errors_logged' = Append(errors_logged, [at |-> k, what |-> what])
    /\ IF error(elogger.break_on_error) = "SystemExit"
       THEN /\ epc' = "exit"
            /\ exit_status' = ExitStatus("SystemExit(1)")
            /\ UNCHANGED epos
       ELSE /\ epos' = next
            /\ UNCHANGED <<epc, exit_status>>

\* The manifest is loaded for its externalize_code.  Nothing to export:
\* SystemExit(0).  Otherwise the JSON files of the workflows directory and
\* the directories of the scripts directory are deleted and the loop is
\* entered.
ExportBegin ==
    /\ epc = "start"
    /\ loaded' = load_manifest(file)
    /\ IF summaries = <<>>
       THEN /\ epc' = "exit" /\ exit_status' = ExitStatus("SystemExit(0)")
            /\ UNCHANGED <<workflows_dir, script_dirs>>
       ELSE /\ epc' = "loop" /\ UNCHANGED exit_status
            /\ workflows_dir' = [p \in {} |-> 0]
            /\ script_dirs' = {}
    /\ UNCHANGED <<file, epos, fetches, files_written, exported_specs, errors_logged,
                   exportFrame>>

InLoop == epc = "loop" /\ epos <= Len(summaries)

\* A summary without id or name is skipped with a warning.
SkipSummary ==
    /\ InLoop
    /\ SummaryInvalid(summaries[epos])
    /\ epos' = epos + 1
    /\ UNCHANGED <<mvars, fetches, files_written, exported_specs, errors_logged, epc,
                   exit_status, workflows_dir, script_dirs, exportFrame>>

\* client.get_workflow(wf_id) raises: logger.error, continue.
FetchFails ==
    /\ InLoop
    /\ ~SummaryInvalid(summaries[epos])
    /\ fetches' = Append(fetches, epos)
    /\ LogError(epos, "fetch", epos + 1)
    /\ UNCHANGED <<mvars, files_written, exported_specs, workflows_dir, script_dirs,
                   exportFrame>>

\* The script directories after _externalize_workflow_code was called (when
\* externalize_code is set) for the workflow of the name.
ScriptDirsAfter(name) ==
    IF ExternalizeCode(loaded) THEN script_dirs \cup {_sanitize_filename(name)} ELSE script_dirs

\* The workflow is fetched, filepath.write_text raises: logger.error, continue.
WriteFails ==
    /\ InLoop
    /\ ~SummaryInvalid(summaries[epos])
    /\ fetches' = Append(fetches, epos)
    /\ script_dirs' = ScriptDirsAfter(summaries[epos].name)
    /\ LogError(epos, "write", epos + 1)
    /\ UNCHANGED <<mvars, files_written, exported_specs, workflows_dir, exportFrame>>

\* The workflow is fetched and a script_path.write_text of its
\* externalization raises: no handler in run_export, main exits with 1.
ExternalizeRaises ==
    /\ InLoop
    /\ ~SummaryInvalid(summaries[epos])
    /\ ExternalizeCode(loaded)
    /\ fetches' = Append(fetches, epos)
    /\ script_dirs' = ScriptDirsAfter(summaries[epos].name)
    /\ epc' = "raised"
    /\ exit_status' = ExitStatus("Exception")
    /\ UNCHANGED <<mvars, epos, files_written, exported_specs, errors_logged, workflows_dir,
                   exportFrame>>

\* The workflow is fetched, its code externalized when externalize_code is
\* set, its file written (over a file of that name) and its spec appended.
ExportWorkflow ==
    /\ InLoop
    /\ ~SummaryInvalid(summaries[epos])
    /\ fetches' = Append(fetches, epos)
    /\ script_dirs' = ScriptDirsAfter(summaries[epos].name)
    /\ files_written' = Append(files_written, WorkflowFilename(summaries[epos].name))
    /\ workflows_dir' =
          [p \in DOMAIN workflows_dir \cup {WorkflowFilename(summaries[epos].name)} |->
              IF p = WorkflowFilename(summaries[epos].name)
              THEN summaries[epos].id ELSE workflows_dir[p]]
    /\ exported_specs' = Append(exported_specs, ExportedSpec(summaries[epos], tags_mapping))
    /\ epos' = epos + 1
    /\ UNCHANGED <<mvars, errors_logged, epc, exit_status, exportFrame>>

\* Past the loop: the manifest is written when something was exported (a
\* failing write is a logger.error), and run_export returns.
ExportFinish ==
    /\ epc = "loop"
    /\ epos = Len(summaries) + 1
    /\ \E manifest_written \in BOOLEAN :
          IF exported_specs # <<>> /\ ~manifest_written
          THEN /\ errors_logged' = Append(errors_logged, [at |-> epos, what |-> "manifest"])
               /\ LET raised == error(elogger.break_on_error)
                  IN  /\ epc' = IF raised = "SystemExit" THEN "exit" ELSE "done"
                      /\ exit_status' = IF raised = "SystemExit"
                                        THEN ExitStatus("SystemExit(1)")
                                        ELSE ExitStatus("returned")
               /\ UNCHANGED file
          ELSE /\ epc' = "done"
               /\ exit_status' = ExitStatus("returned")
               /\ file' = IF exported_specs # <<>>
                          THEN ManifestYaml(ExternalizeCode(loaded), tags_mapping,
                                            SortedByName(exported_specs))
                          ELSE file
               /\ UNCHANGED errors_logged
    /\ UNCHANGED <<loaded, epos, fetches, files_written, exported_specs, workflows_dir,
                   script_dirs, exportFrame>>

\* The command is run again, after a run that logged no error, on the files
\* that run left.
ExportAgain ==
    /\ epc = "done"
    /\ errors_logged = <<>>
    /\ runs < MaxRuns
    /\ runs' = runs + 1
    /\ loaded' = Pending
    /\ epos' = 1
    /\ fetches' = <<>>
    /\ files_written' = <<>>
    /\ exported_specs' = <<>>
    /\ errors_logged' = <<>>
    /\ epc' = "start"
    /\ exit_status' = Running
    /\ UNCHANGED <<file, summaries, elogger, tags_mapping, manifest_before, workflows_dir,
                   script_dirs, rvars, xvars, dvars, tvars, svars>>

ExportRunNext ==
    \/ ExportBegin
    \/ SkipSummary
    \/ FetchFails
    \/ WriteFails
    \/ ExternalizeRaises
    \/ ExportWorkflow
    \/ ExportFinish
    \/ ExportAgain

ExportRunSpec == ExportRunInit /\ [][ExportRunNext]_vars

(***************************************************************************)
(* Claims about run_export and the logger.                                 *)
(***************************************************************************)
ValidSummaries == {k \in 1..Len(summaries) : ~SummaryInvalid(summaries[k])}

\* The summaries for which fetching or writing failed.
FailedSummaries ==
    {errors_logged[e].at : e \in {x \in 1..Len(errors_logged) :
                                     errors_logged[x].what \in {"fetch", "write"}}}

\* C11: an error reported through logger.error ends the run with exit status
\* 1 exactly when break_on_error is configured.  Without it a failed fetch or
\* write skips that workflow only: every workflow with id and name is fetched,
\* in order, and every one that did not fail is exported.  With it nothing is
\* fetched after the first error.
C11_BreakOnError ==
    /\ errors_logged # <<>> /\ elogger.break_on_error
          => epc = "exit" /\ exit_status = 1 /\ Len(errors_logged) = 1
    /\ errors_logged # <<>> /\ ~elogger.break_on_error => epc # "exit"
    /\ epc = "exit" /\ summaries # <<>> => errors_logged # <<>> /\ elogger.break_on_error
    /\ epc = "done" =>
          /\ exit_status = 0
          /\ fetches = Ascending(ValidSummaries)
          /\ Len(exported_specs) = Cardinality(ValidSummaries \ FailedSummaries)
          /\ files_written =
                [i \in 1..Len(exported_specs) |-> WorkflowFilename(exported_specs[i].name)]
    /\ \A e \in 1..Len(errors_logged) :
          errors_logged[e].what \in {"fetch", "write"} /\ elogger.break_on_error
              => fetches[Len(fetches)] = errors_logged[e].at

\* Without break_on_error the first workflow failed and a later one was
\* exported, and the run ended with status 0.
C11_Witness ==
    /\ epc = "done" /\ ~elogger.break_on_error
    /\ Len(errors_logged) >= 1 /\ errors_logged[1].what = "fetch"
    /\ Len(exported_specs) >= 1
    /\ fetches[Len(fetches)] > errors_logged[1].at

(***************************************************************************)
(* Claims about a user interrupt.                                          *)
(***************************************************************************)
\* The remote store after the calls that the store completed among the
\* first n actions of the plan, made in plan order on store.
RECURSIVE Replay(_, _)
Replay(n, store) ==
    IF n = 0 THEN store
    ELSE IF results[n] \in {"ok", "interrupted_after"}
    THEN Perform(actions[n], Replay(n - 1, store))
    ELSE Replay(n - 1, store)

\* C12: a user interrupt ends the command with exit status 130; the remote
\* state is then exactly what the calls completed before it produced, and no
\* action of the plan beyond the one under way was sent.
C12_InterruptStops ==
    dpc = "interrupted" =>
        /\ exit_status = 130
        /\ remote = Replay(Len(results), remote_before)
        /\ Len(calls) <= Len(results)
        /\ \A i \in (Len(results) + 1)..Len(actions) : ~Sent(i)
        /\ second_plan = Pending

\* The interrupt came during apply, after a mutation was carried out and
\* with actions of the plan still to go.
C12_Witness ==
    /\ dpc = "interrupted"
    /\ \E i \in 1..Len(results) : results[i] = "ok"
    /\ Len(results) < Len(actions)
    /\ remote # remote_before

(***************************************************************************)
(* Claims about the plan of a workflow that is new to the remote store.    *)
(***************************************************************************)
\* The store holds no workflow named "Invoice Sync" and no tag "prod".
KnowsNothingOfInvoiceSync(store) ==
    /\ \A id \in DOMAIN store.workflows : store.workflows[id].name # InvoiceSync
    /\ \A t \in DOMAIN store.tags : store.tags[t] # prod

\* In plan p the tags a created workflow is to get are created before its
\* Create, and its Activate and AssignTags come after its Create.
CreateOrdered(p) ==
    \A k \in 1..Len(p) :
        p[k].op \in {"Activate", "AssignTags"} /\ p[k].id = NoId =>
            \E j \in 1..(k - 1) :
                /\ p[j].op = "Create" /\ p[j].name = p[k].name
                /\ \A i \in 1..Len(p) :
                      p[i].op = "CreateTag" /\ p[i].name \in SeqToSet(p[k].tags) => i < j

\* C13: for the manifest with the one workflow "Invoice Sync" (active, tag
\* "prod") and a remote store with no such workflow and no such tag, the plan
\* is CreateTag("prod"), Create("Invoice Sync"), Activate, AssignTags of the
\* new workflow, in that order (then only the Deletes of a prune); in every
\* plan a tag is created before the Create of the workflow that gets it, and
\* Activate and AssignTags follow the Create of their workflow.
C13_InvoiceSyncPlan ==
    /\ dpc = "planned" /\ file = InvoiceManifest /\ KnowsNothingOfInvoiceSync(remote_before)
          => /\ Len(actions) >= 4
             /\ SubSeq(actions, 1, 4) =
                    << CreateTag(prod),
                       Create(InvoiceSync, docs[InvoiceSync]),
                       Activate(NoId, InvoiceSync),
                       AssignTags(NoId, InvoiceSync, <<prod>>) >>
             /\ \A i \in 5..Len(actions) : actions[i].op = "Delete"
             /\ ~args.prune => Len(actions) = 4
    /\ CreateOrdered(actions)
    /\ second_plan.ok => CreateOrdered(second_plan.val)

\* The scenario: the plan of the four actions, against the empty store.
C13_Witness ==
    /\ dpc = "planned" /\ file = InvoiceManifest
    /\ remote_before = RemoteStore(NoEntries, NoEntries)
    /\ Len(actions) = 4 /\ actions[3].op = "Activate"

(***************************************************************************)
(* Claims about checksum verification.                                     *)
(***************************************************************************)
\* The manifest workflows whose document holds the mismatching directive.
Mismatching ==
    {i \in 1..Len(rendered_docs) : docs[loaded.val.workflows[i].name] = MismatchDoc}

\* C14: a directive whose declared sha256 is not the digest of the file it
\* names makes render fail when checksums are enforced; when they are not,
\* render succeeds, reports checksum_mismatch for the directive and puts the
\* file's content in the field all the same.
C14_ChecksumMismatch ==
    \A i \in Mismatching :
        /\ Len(rendered_docs[i].reports) = 1
        /\ rendered_docs[i].reports[1].status = "checksum_mismatch"
        /\ rendered_docs[i].reports[1].expected # rendered_docs[i].reports[1].actual
        /\ rendered_docs[i].ok <=> ~args.enforce_checksum
        /\ ~args.enforce_checksum =>
              CodeValue(rendered_docs[i].rendered, 1, "pythonCode")
                  = Str(SnapshotReadText(scripts, <<"scripts", "/", "a", ".py">>))

\* The mismatch was met without enforcement, and the deploy went on.
C14_Witness ==
    /\ dpc = "planned" /\ ~args.enforce_checksum
    /\ Mismatching # {}
    /\ \A i \in Mismatching : rendered_docs[i].ok

(***************************************************************************)
(* N8nClient.list_tags (n8n_client.py): the tags of the server, fetched    *)
(* page by page.                                                           *)
(***************************************************************************)
MaxPages == 3
MaxTagRequests == 4

\* params = {"limit": 100}
PageLimit == 100

\* The cursor page k hands out; every page hands out one of its own.
CursorOf(k) == Str(<<"c", ToString(k)>>)

\* The cursors the server hands out.
Cursors == {CursorOf(k) : k \in 1..(MaxPages - 1)}

\* The tag objects of page k.
TagObject(k, j) == [id |-> 10 * k + j]

\* What the "data" field of page k may hold: a list of tag objects, something
\* that is no list, or nothing (the field is missing).
PageData(k) ==
    {List(<<>>), List(<<TagObject(k, 1)>>), List(<<TagObject(k, 1), TagObject(k, 2)>>),
     Dict(EmptyDict), Absent}

\* A response of GET /api/v1/tags: a JSON object, a bare JSON list (older
\* servers), or another JSON value.
DictPage(data, nextCursor) == [kind |-> "dict", data |-> data, nextCursor |-> nextCursor]
ListPage(items) == [kind |-> "list", data |-> List(items), nextCursor |-> Absent]
OtherPage == [kind |-> "other", data |-> Absent, nextCursor |-> Absent]

\* How a page may mark the end of the listing.
EndMarks == {Null, Absent, Str(<<>>)}

LastPages(k) ==
    {DictPage(d, e) : d \in PageData(k), e \in EndMarks}
        \cup {ListPage(<<TagObject(k, 1)>>), OtherPage}

\* The first n pages of a server that has more than n pages.
RECURSIVE InnerPages(_)
InnerPages(n) ==
    IF n = 0 THEN {<<>>}
    ELSE {Append(ps, DictPage(d, CursorOf(n))) : ps \in InnerPages(n - 1), d \in PageData(n)}

\* The servers: one to MaxPages pages, every page but the last handing out a
\* cursor of its own.
TagServers ==
    UNION {{Append(ps, last) : ps \in InnerPages(n - 1), last \in LastPages(n)}
           : n \in 1..MaxPages}

\* The page the server answers a request with: the first page when the
\* request names no cursor, else the page after the one that handed the
\* cursor out.
Serve(pages, params) ==
    IF params.cursor = Absent THEN pages[1]
    ELSE LET from == {k \in 1..(Len(pages) - 1) : pages[k].nextCursor = params.cursor}
         IN  IF from = {} THEN OtherPage
             ELSE pages[(CHOOSE k \in from : TRUE) + 1]

\* The truth value of cursor (a str or None).
Truthy(c) == c.t = "str" /\ c.s # <<>>

\* A request that always names the cursor it holds.
ParamsAlwaysCursor(c) == [limit |-> PageLimit, cursor |-> c]

\* params = {"limit": 100}; if cursor: params["cursor"] = cursor
Params(c) == [limit |-> PageLimit, cursor |-> IF Truthy(c) THEN c ELSE Absent]

\* tags = result.get("data", []); if isinstance(tags, list): all_tags.extend(tags)
Extend(tags, result) ==
    IF result.kind = "other" THEN tags
    ELSE LET data == IF result.data = Absent THEN List(<<>>) ELSE result.data
         IN  IF data.t = "list" THEN tags \o data.items ELSE tags

\* cursor = result.get("nextCursor") for an object, None otherwise
NextCursor(result) ==
    IF result.kind = "dict" /\ result.nextCursor # Absent THEN result.nextCursor ELSE Null

ListTagsInit ==
    /\ tag_pages \in TagServers
    /\ cursor = Str(<<>>)
    /\ all_tags = <<>>
    /\ tag_requests = <<>>
    /\ tpc = "loop"
    /\ exit_status = Running
    /\ LoaderIdle
    /\ RequestIdle
    /\ ExportIdle
    /\ DeployIdle
    /\ ExportRunIdle
    /\ SanitizeIdle

\* while cursor is not None
InTagLoop == tpc = "loop" /\ cursor # Null /\ Len(tag_requests) < MaxTagRequests

\* One turn of the loop: the request is answered.
ListTagsPage ==
    /\ InTagLoop
    /\ LET params == Params(cursor)
           result == Serve(tag_pages, params)
       IN  /\ tag_requests' = Append(tag_requests, params)
           /\ all_tags' = Extend(all_tags, result)
           /\ cursor' = NextCursor(result)
    /\ UNCHANGED <<tag_pages, tpc, exit_status, mvars, rvars, xvars, dvars, evars, svars>>

\* One turn of the loop: _request raises APIError, which list_tags lets through.
ListTagsRequestFails ==
    /\ InTagLoop
    /\ tag_requests' = Append(tag_requests, Params(cursor))
    /\ tpc' = "raised"
    /\ UNCHANGED <<tag_pages, cursor, all_tags, exit_status, mvars, rvars, xvars, dvars, evars, svars>>

\* return all_tags
ListTagsReturn ==
    /\ tpc = "loop"
    /\ cursor = Null
    /\ tpc' = "returned"
    /\ UNCHANGED <<tag_pages, cursor, all_tags, tag_requests, exit_status,
                   mvars, rvars, xvars, dvars, evars, svars>>

ListTagsNext == ListTagsPage \/ ListTagsRequestFails \/ ListTagsReturn

ListTagsSpec == ListTagsInit /\ [][ListTagsNext]_vars

(***************************************************************************)
(* Claims about list_tags.                                                 *)
(***************************************************************************)
\* The server's last page ends the listing with a null or absent nextCursor,
\* and every page's data is a list or missing.
ChainEndsWithNull ==
    /\ tag_pages[Len(tag_pages)].kind = "dict"
    /\ tag_pages[Len(tag_pages)].nextCursor \in {Null, Absent}
    /\ \A k \in 1..Len(tag_pages) : tag_pages[k].data = Absent \/ tag_pages[k].data.t = "list"

RECURSIVE Concatenation(_, _)
Concatenation(pages, n) ==
    IF n = 0 THEN <<>>
    ELSE Concatenation(pages, n - 1)
            \o (IF pages[n].data = Absent THEN <<>> ELSE pages[n].data.items)

\* C15: against a server whose pages are linked by nextCursor and end with a
\* null or absent nextCursor, list_tags asks once per page, the first time
\* without a cursor and afterwards with the cursor of the page before, and
\* returns the pages' data concatenated in page order.
C15_ListTagsComplete ==
    ChainEndsWithNull =>
        /\ Len(tag_requests) <= Len(tag_pages)
        /\ \A i \in 1..Len(tag_requests) :
              /\ tag_requests[i].limit = PageLimit
              /\ tag_requests[i].cursor
                    = IF i = 1 THEN Absent ELSE tag_pages[i - 1].nextCursor
        /\ tpc = "loop" => all_tags = Concatenation(tag_pages, Len(tag_requests))
        /\ tpc = "returned" =>
              /\ Len(tag_requests) = Len(tag_pages)
              /\ all_tags = Concatenation(tag_pages, Len(tag_pages))

\* Three pages, each with tags, were fetched and returned.
C15_Witness ==
    /\ ChainEndsWithNull
    /\ tpc = "returned"
    /\ Len(tag_pages) = MaxPages
    /\ Len(all_tags) > MaxPages

(***************************************************************************)
(* Claims about the tags of a loaded manifest.                             *)
(***************************************************************************)
\* The names the document lists under tags, for a document that loads.
DocumentTags == StrList(DictGet(file.data.d, "tags", List(<<>>)).items)

\* Where the document first lists the name.
FirstListed(names, name) ==
    CHOOSE k \in 1..Len(names) : names[k] = name /\ \A l \in 1..(k - 1) : names[l] # name

\* C16: in a manifest that load_manifest returns, no tag name occurs twice in
\* tags, the names are those the document lists and they stand in the order
\* the document lists them in.
C16_TagsOrderedSet ==
    loaded.ok =>
        LET tags == loaded.val.tags
        IN  /\ \A i, j \in 1..Len(tags) : i # j => tags[i] # tags[j]
            /\ SeqToSet(tags) = SeqToSet(DocumentTags)
            /\ \A i, j \in 1..Len(tags) :
                  i < j => FirstListed(DocumentTags, tags[i]) < FirstListed(DocumentTags, tags[j])

\* What the document holds under tags, for a document whose root is a mapping.
RawTags == DictGet(file.data.d, "tags", Absent)

\* The document's tags are something other than a sequence of strings.
TagsMalformed ==
    /\ IsMapping(file)
    /\ RawTags # Absent
    /\ RawTags.t # "list" \/ ~AllStr(RawTags.items)

\* C17: a manifest whose tags are a mapping, a scalar or a sequence holding a
\* non-string is rejected with ManifestError, for its tags unless its
\* externalize_code is rejected first; a manifest that loads has tags that are
\* a sequence of strings, or none.
C17_TagsOnlySequence ==
    loaded # Pending =>
        /\ TagsMalformed =>
              /\ ~loaded.ok /\ loaded.exc = "ManifestError"
              /\ loaded.site \in {"externalize_code", "tags_type", "tags_items"}
              /\ loaded.site = "tags_type" <=>
                    /\ RawTags.t # "list"
                    /\ _parse_externalize_code(file.data.d).ok
        /\ loaded.ok => RawTags = Absent \/ (RawTags.t = "list" /\ AllStr(RawTags.items))

\* The mapping form was rejected for being no list.
C17_Witness ==
    /\ Rejected /\ IsMapping(file)
    /\ RawTags.t = "dict"
    /\ loaded.site = "tags_type"

(***************************************************************************)
(* Claims about how load_manifest fails.                                   *)
(***************************************************************************)
\* C18: whatever is wrong with the manifest (the file missing or unreadable,
\* the YAML not parsing, the root empty or no mapping, the schema violated),
\* load_manifest fails with ManifestError and with no other exception.
C18_OnlyManifestError ==
    Rejected => loaded.exc = "ManifestError"

(***************************************************************************)
(* Claims about the directives externalization writes.                     *)
(***************************************************************************)
\* Code field f of node i was replaced by externalization.
Replaced(i, f) ==
    /\ f \in CodeFieldsOf(wf, i)
    /\ CodeValue(modified, i, f) # CodeValue(wf, i, f)

\* scripts/<sanitized workflow name>/<sanitized node name><extension>
DirectivePath(i, f) ==
    <<"scripts", "/">> \o _sanitize_filename(wf_name) \o <<"/">>
        \o Append(_sanitize_filename(DictGet(NodesOf(wf)[i].d, "name", Str(<<"unnamed">>)).s),
                  _get_file_extension(f))

\* C19: every code field that externalization replaced holds the marker, one
\* space and the path scripts/<workflow>/<node><extension>, with no sha256
\* part, and the file at that path holds the field's original code unmodified.
C19_DirectiveWithoutChecksum ==
    xpc \in {"externalized", "rendered"} =>
        \A i \in 1..Len(NodesOf(wf)) : \A f \in SeqToSet(CODE_FIELD_NAMES) :
            Replaced(i, f) =>
                /\ CodeValue(modified, i, f) = Str(<<MARKER, " ">> \o DirectivePath(i, f))
                /\ ParseDirective(CodeValue(modified, i, f).s).checksum = ""
                /\ PathOf(DirectivePath(i, f)) \in DOMAIN scripts
                /\ scripts[PathOf(DirectivePath(i, f))] = CodeValue(wf, i, f).s

(***************************************************************************)
(* Claims about the defaults of a loaded manifest.                         *)
(***************************************************************************)
\* The keys the i-th workflow entry of the document leaves out.
Omits(i, key) == key \notin DOMAIN RawEntries(file)[i].d

\* C20: a manifest that leaves out externalize_code loads with it true, one
\* that leaves out tags loads with no tags, and a workflow entry that leaves
\* out active, tags, requires_credentials or requires_env loads inactive and
\* with the list it leaves out empty.
C20_Defaults ==
    loaded.ok =>
        /\ "externalize_code" \notin DOMAIN file.data.d => loaded.val.externalize_code = TRUE
        /\ "tags" \notin DOMAIN file.data.d => loaded.val.tags = <<>>
        /\ Len(loaded.val.workflows) = Len(RawEntries(file))
        /\ \A i \in 1..Len(loaded.val.workflows) :
              /\ Omits(i, "active") => loaded.val.workflows[i].active = FALSE
              /\ Omits(i, "tags") => loaded.val.workflows[i].tags = <<>>
              /\ Omits(i, "requires_credentials") =>
                    loaded.val.workflows[i].requires_credentials = <<>>
              /\ Omits(i, "requires_env") => loaded.val.workflows[i].requires_env = <<>>

\* A manifest that gives nothing but the name of one workflow was loaded.
C20_Witness ==
    /\ loaded.ok
    /\ DOMAIN file.data.d = {"workflows"}
    /\ Len(loaded.val.workflows) = 1
    /\ DOMAIN RawEntries(file)[1].d = {"name"}
    /\ loaded.val.externalize_code = TRUE

(***************************************************************************)
(* _sanitize_filename on its own, applied to a name and then to its result. *)
(***************************************************************************)
MaxNameLen == 4

\* What the names are made of: a letter, the underscore, the hyphen, the dot,
\* a space, the path separator and the word "workflow".
NameSymbols == {"a", "_", "-", ".", " ", "/", "workflow"}

Names == SeqsUpTo(NameSymbols, MaxNameLen)

SanitizeInit ==
    /\ sname \in Names
    /\ ssafe = <<>>
    /\ sagain = <<>>
    /\ spc = "start"
    /\ exit_status = Running
    /\ LoaderIdle
    /\ RequestIdle
    /\ ListTagsIdle
    /\ ExportIdle
    /\ DeployIdle
    /\ ExportRunIdle

\* safe_name = _sanitize_filename(name)
Sanitize ==
    /\ spc = "start"
    /\ ssafe' = _sanitize_filename(sname)
    /\ spc' = "once"
    /\ UNCHANGED <<sname, sagain, exit_status, mvars, rvars, xvars, dvars, evars, tvars>>

\* The name is derived once more, from the sanitized name.
SanitizeAgain ==
    /\ spc = "once"
    /\ sagain' = _sanitize_filename(ssafe)
    /\ spc' = "twice"
    /\ UNCHANGED <<sname, ssafe, exit_status, mvars, rvars, xvars, dvars, evars, tvars>>

SanitizeNext == Sanitize \/ SanitizeAgain

SanitizeSpec == SanitizeInit /\ [][SanitizeNext]_vars

(***************************************************************************)
(* Claims about _sanitize_filename.                                        *)
(***************************************************************************)
\* What is left of the name once every character that is no word character,
\* hyphen or dot counts as an underscore, runs of underscores count as one,
\* and the underscores at either end are dropped.
Remains(name) ==
    Strip(CollapseUnderscores([i \in 1..Len(name) |->
              IF name[i] \in {"a", "workflow", "-", "."} THEN name[i] ELSE "_"]), {"_"})

\* C29: the sanitized name is not empty, is made only of word characters,
\* hyphens and dots (so holds no path separator), has no two underscores in a
\* row and none at either end; it is "workflow" exactly when nothing else
\* remains of the name, and what remains otherwise.
C29_SanitizedShape ==
    spc \in {"once", "twice"} =>
        /\ ssafe # <<>>
        /\ \A i \in 1..Len(ssafe) : ssafe[i] \in {"a", "_", "-", ".", "workflow"}
        /\ \A i \in 1..Len(ssafe) : ssafe[i] \notin {"/", " "}
        /\ \A i \in 1..(Len(ssafe) - 1) : ~(ssafe[i] = "_" /\ ssafe[i + 1] = "_")
        /\ ssafe[1] # "_" /\ ssafe[Len(ssafe)] # "_"
        /\ Remains(sname) \in {<<>>, <<"workflow">>} <=> ssafe = <<"workflow">>
        /\ Remains(sname) # <<>> => ssafe = Remains(sname)

\* A name with a separator, spaces and underscores at its ends was sanitized.
C29_Witness ==
    /\ spc = "once"
    /\ \E i \in 1..Len(sname) : sname[i] = "/"
    /\ sname[1] = "_" /\ sname[Len(sname)] = " "
    /\ ssafe # <<"workflow">>

\* C30: sanitizing a sanitized name gives the same name.
C30_SanitizeIdempotent ==
    spc = "twice" => sagain = ssafe

\* A name that sanitizing changed was sanitized twice.
C30_Witness ==
    /\ spc = "twice"
    /\ ssafe # sname
    /\ ssafe # <<"workflow">>

(***************************************************************************)
(* Claims about the backoff of _request.                                   *)
(***************************************************************************)
\* Every attempt of the call got a retryable status, and the call has failed.
FailedOnRetryableOnly ==
    /\ rpc = "done" /\ ~outcome.ok
    /\ requests # <<>>
    /\ \A i \in 1..Len(requests) :
          requests[i].kind = "response" /\ requests[i].status_code \in RetryableStatuses

\* C28: with the default ceiling of three attempts, a call whose every
\* attempt gets a retryable status has waited 1, 2 and 4 seconds, 2^attempt
\* after attempt number attempt, when its failure is raised.
C28_Backoff ==
    max_retries = DefaultMaxRetries /\ FailedOnRetryableOnly =>
        /\ Len(requests) = DefaultMaxRetries
        /\ sleeps = [i \in 1..DefaultMaxRetries |-> Pow2(i - 1)]

(***************************************************************************)
(* Claims about the end of the tag listing.                                *)
(***************************************************************************)
\* The server's last page ends the listing with a null, an absent or an
\* empty-string nextCursor, and every page's data is a list or missing.
ChainEnds ==
    /\ tag_pages[Len(tag_pages)].kind = "dict"
    /\ tag_pages[Len(tag_pages)].nextCursor \in EndMarks
    /\ \A k \in 1..Len(tag_pages) : tag_pages[k].data = Absent \/ tag_pages[k].data.t = "list"

\* C27: against a server whose last page ends the listing with a null, an
\* absent or an empty-string nextCursor, list_tags asks for no page twice
\* (so makes at most one request per page and comes to an end), and what it
\* has collected holds each tag of the pages fetched once.
C27_ListTagsTerminates ==
    tpc # "idle" /\ ChainEnds =>
        /\ \A i, j \in 1..Len(tag_requests) : i # j => tag_requests[i] # tag_requests[j]
        /\ Len(tag_requests) <= Len(tag_pages)
        /\ tpc # "raised" => all_tags = Concatenation(tag_pages, Len(tag_requests))

(***************************************************************************)
(* Claims about what externalization writes and what it leaves alone.      *)
(***************************************************************************)
Externalized == xpc \in {"externalized", "rendered"}

\* The code fields externalization replaced: node index and field name.
ReplacedSlots ==
    {x \in {<<i, f>> : i \in 1..Len(NodesOf(wf)), f \in SeqToSet(CODE_FIELD_NAMES)} :
        Replaced(x[1], x[2])}

SlotPath(x) == PathOf(DirectivePath(x[1], x[2]))

FieldIndex(f) == CHOOSE k \in 1..Len(CODE_FIELD_NAMES) : CODE_FIELD_NAMES[k] = f

\* Slot x is handled before slot y: nodes in order, and the fields of a node
\* in the order of CODE_FIELD_NAMES.
HandledBefore(x, y) ==
    x[1] < y[1] \/ (x[1] = y[1] /\ FieldIndex(x[2]) < FieldIndex(y[2]))

\* C25: when several code blocks of a workflow map to one script path, each
\* of them is counted and replaced by the same directive, and the one file at
\* that path holds the code of the block handled last.
C25_DuplicatePaths ==
    Externalized =>
        /\ externalized_count = Cardinality(ReplacedSlots)
        /\ DOMAIN scripts = {SlotPath(x) : x \in ReplacedSlots}
        /\ \A x, y \in ReplacedSlots :
              SlotPath(x) = SlotPath(y) =>
                  /\ CodeValue(modified, x[1], x[2]) = CodeValue(modified, y[1], y[2])
                  /\ CodeValue(modified, x[1], x[2]) = Str(<<MARKER, " ">> \o DirectivePath(x[1], x[2]))
                  /\ (\A z \in ReplacedSlots : SlotPath(z) = SlotPath(x) => ~HandledBefore(y, z))
                        => scripts[SlotPath(x)] = CodeValue(wf, y[1], y[2]).s

\* Two blocks of different code in two nodes of one name: both counted, one
\* file.
C25_Witness ==
    /\ xpc = "externalized"
    /\ externalized_count = 2
    /\ Cardinality(DOMAIN scripts) = 1
    /\ \E x, y \in ReplacedSlots :
          /\ x[1] < y[1]
          /\ SlotPath(x) = SlotPath(y)
          /\ CodeValue(wf, x[1], x[2]) # CodeValue(wf, y[1], y[2])

\* The value is one externalization acts on: a string that is not blank and
\* whose trimmed text does not begin with the include marker.
InlineCode(v) ==
    /\ v.t = "str"
    /\ Strip(v.s, Whitespace) # <<>>
    /\ Head(Strip(v.s, Whitespace)) # MARKER

\* C26: a code field that holds a directive, a blank string or no string is
\* left identical, has no script file written for it and is not counted; the
\* fields replaced are those holding inline code, the count returned is
\* their number, and a node without a parameters mapping is left identical.
C26_Frame ==
    Externalized =>
        /\ Len(NodesOf(modified)) = Len(NodesOf(wf))
        /\ \A i \in 1..Len(NodesOf(wf)) :
              /\ CodeFieldsOf(wf, i) = {} => NodesOf(modified)[i] = NodesOf(wf)[i]
              /\ \A f \in CodeFieldsOf(wf, i) :
                    Replaced(i, f) <=> InlineCode(CodeValue(wf, i, f))
        /\ externalized_count = Cardinality(ReplacedSlots)
        /\ DOMAIN scripts = {SlotPath(x) : x \in ReplacedSlots}

\* A directive and a block of inline code side by side: one counted.
C26_Witness ==
    /\ xpc = "externalized"
    /\ externalized_count = 1
    /\ \E i \in 1..Len(NodesOf(wf)) : \E f \in CodeFieldsOf(wf, i) :
          /\ CodeValue(wf, i, f).t = "str"
          /\ StartsWithMarker(Strip(CodeValue(wf, i, f).s, Whitespace))
          /\ CodeValue(modified, i, f) = CodeValue(wf, i, f)

(***************************************************************************)
(* Claims about the files export keeps.                                    *)
(***************************************************************************)
\* The summaries whose workflow get_workflow returned in this run.
Fetched ==
    SeqToSet(fetches) \ {errors_logged[e].at : e \in {x \in 1..Len(errors_logged) :
                                                        errors_logged[x].what = "fetch"}}

\* The workflow names the manifest file lists, in its order.
ListedNames(f) ==
    [i \in 1..Len(RawEntries(f)) |-> DictGet(RawEntries(f)[i].d, "name", Str(<<>>)).s]

\* The run ended normally: it returned, or left with status 0.
EndedNormally == epc = "done" \/ (epc = "exit" /\ exit_status = 0)

\* C21: over export runs that begin with a valid manifest, every run works
\* with the externalize_code the manifest had before the first run, makes
\* script directories only when that value is true, and leaves a manifest
\* holding that value.
C21_ExternalizeCodePreserved ==
    load_manifest(manifest_before).ok =>
        LET setting == load_manifest(manifest_before).val.externalize_code
        IN  /\ loaded # Pending => ExternalizeCode(loaded) = setting
            /\ epc \in {"loop", "done"} /\ script_dirs # {} => setting
            /\ epc = "done" =>
                  /\ IsMapping(file)
                  /\ DictGet(file.data.d, "externalize_code", Absent) = Bool(setting)

\* C22: after an export run that ended normally the manifest lists exactly
\* the workflows fetched, sorted by name, and the workflows directory holds
\* exactly their JSON files.
C22_Mirror ==
    EndedNormally =>
        /\ ListedNames(file)
              = [i \in 1..Cardinality(Fetched) |->
                    SortedByName([k \in 1..Cardinality(Fetched) |->
                                     summaries[Ascending(Fetched)[k]]])[i].name]
        /\ DOMAIN workflows_dir = {WorkflowFilename(summaries[k].name) : k \in Fetched}

\* The manifest file is the one the run that just returned wrote.
ManifestJustWritten ==
    /\ epc = "done" /\ exported_specs # <<>>
    /\ \A e \in 1..Len(errors_logged) : errors_logged[e].what # "manifest"

UniquelyNamed ==
    \A i, j \in 1..Len(exported_specs) :
        exported_specs[i].name = exported_specs[j].name => i = j

\* C23: the manifest create-project writes, and the manifest export writes
\* for uniquely named workflows, load without error and yield the workflows
\* and the tags written.
C23_ToolManifestsLoad ==
    /\ file = ScaffoldManifest =>
          /\ load_manifest(file).ok
          /\ load_manifest(file).val.workflows = <<>>
    /\ ManifestJustWritten /\ UniquelyNamed =>
          /\ load_manifest(file).ok
          /\ [i \in 1..Len(load_manifest(file).val.workflows) |->
                 load_manifest(file).val.workflows[i].name]
                = [i \in 1..Len(exported_specs) |-> SortedByName(exported_specs)[i].name]
          /\ SeqToSet(load_manifest(file).val.tags)
                = {tags_mapping[id] : id \in DOMAIN tags_mapping}

\* workflows/<sanitize(name)>.json
WorkflowPath(name) == <<"workflows", "/">> \o WorkflowFilename(name)

\* C24: two workflows of different names, exported in one run or listed in
\* the manifest loaded, have different workflow files and different script
\* directories.
C24_DistinctStorage ==
    /\ \A i, j \in 1..Len(exported_specs) :
          exported_specs[i].name # exported_specs[j].name =>
              /\ WorkflowPath(exported_specs[i].name) # WorkflowPath(exported_specs[j].name)
              /\ _sanitize_filename(exported_specs[i].name)
                    # _sanitize_filename(exported_specs[j].name)
    /\ loaded.ok =>
          \A i, j \in 1..Len(loaded.val.workflows) :
              loaded.val.workflows[i].name # loaded.val.workflows[j].name =>
                  WorkflowPath(loaded.val.workflows[i].name)
                      # WorkflowPath(loaded.val.workflows[j].name)

====
